---- MODULE Spec2Model ----
(***************************************************************************)
(* Tube Bite: the clip-generation run as the dashboard drives it           *)
(* (src/src/types/index.ts, Dashboard.handleGenerate) and the pipeline     *)
(* behind the generate endpoints.  The pipeline's code (the FastAPI        *)
(* backend) is not part of the sources; its stages, the selector and the   *)
(* orchestrator are modelled from sections 4-7 of the design document.     *)
(*                                                                         *)
(* Times are counted in half-seconds, so that the midpoint of a range      *)
(* whose ends are whole seconds is exact.  Scores are counted in tenths.   *)
(***************************************************************************)
EXTENDS Integers, Sequences, FiniteSets, TLC

\* ------------------------------------------------------------------------
\* Bounds of the model
\* ------------------------------------------------------------------------

\* candidate times lie on a grid of GridSlot half-seconds, slots 0..MaxSlots
MaxSlots == 2
\* candidate scores are 1..MaxScore tenths
MaxScore == 2
\* longest candidate list the selector is given
MaxCand == 3
\* fixed durations are 1..MaxDurSlots grid slots
MaxDurSlots == 2
\* largest clip count requested of the selector
MaxCount == 2
\* the timer ticks counted during one request
MaxTicks == 180

\* the items of the history, and the handlers of the history page that can
\* be suspended at once
MaxItems == 2
MaxPending == 2

\* the calls of the auth context that can be suspended at once
MaxAuthOps == 2

\* the items a list of the history page holds at most
MaxList == 2

\* the days the clock runs past a deletion
MaxDays == 11

\* ------------------------------------------------------------------------
\* Program constants
\* ------------------------------------------------------------------------

\* five seconds, the shortest fixed duration, in half-seconds
GridSlot == 10
\* the duration 'auto'; a fixed duration is a positive number
Auto == 0
\* overlap tolerance of the selector (default 0)
Tolerance == 0
\* concurrent renders per run
RenderLimit == 2
\* the simulated progress stops here until the response arrives
ProgressCap == 97
\* below this the progress advances on every tick
SlowFrom == 85
\* above SlowFrom the progress advances on every SlowEvery-th tick
SlowEvery == 8

PROCESSING_STAGES ==
  << "Downloading video", "Extracting audio", "Transcribing speech (Whisper)",
     "Analysing transcript with AI", "Detecting viral moments",
     "Ranking by engagement potential", "Extracting selected clips",
     "Applying aspect ratio (letterbox)", "Burning subtitles",
     "Uploading to cloud", "Finalising clips" >>

UPLOAD_STAGES ==
  << "Reading video file", "Uploading to server", "Transcribing speech (Whisper)",
     "Analysing transcript with AI", "Detecting viral moments",
     "Ranking by engagement potential", "Extracting selected clips",
     "Applying aspect ratio (letterbox)", "Burning subtitles",
     "Uploading to cloud", "Finalising clips" >>

SourceTabs == {"youtube", "twitch", "upload"}

\* the orchestrator's states, in order
StageOrder ==
  << "Queued", "Acquiring", "Transcribing", "Detecting", "Selecting",
     "Rendering", "Publishing", "Completed" >>

TerminalStages == {"Completed", "Failed"}

ErrorCategories ==
  {"SourceError", "TranscriptionError", "DetectionError", "RenderError",
   "PublishError", "Timeout", "Cancelled"}

\* ------------------------------------------------------------------------
\* Helpers
\* ------------------------------------------------------------------------

Min(a, b) == IF a < b THEN a ELSE b

Max(a, b) == IF a > b THEN a ELSE b

Range(s) == {s[i] : i \in 1..Len(s)}

\* ------------------------------------------------------------------------
\* 4.4 Moment Ranker/Selector
\* ------------------------------------------------------------------------

\* length of the common part of two ranges (negative when they are apart)
OverlapLen(a, b) ==
  Min(a.endTime, b.endTime) - Max(a.startTime, b.startTime)

Overlaps(a, b) == OverlapLen(a, b) > Tolerance

\* an order by score alone
Before_ScoreOnly(a, b) == a.viralScore > b.viralScore

\* a comes strictly before b: higher score, or equal score and earlier start
Before(a, b) ==
  \/ a.viralScore > b.viralScore
  \/ a.viralScore = b.viralScore /\ a.startTime < b.startTime

RECURSIVE InsertSorted(_, _)
InsertSorted(c, sorted) ==
  IF sorted = << >> THEN << c >>
  ELSE IF Before(c, Head(sorted)) THEN << c >> \o sorted
  ELSE << Head(sorted) >> \o InsertSorted(c, Tail(sorted))

\* the candidates left in the order of the detector
SortCandidates_Unsorted(cands) == cands

\* step 1: descending score, ties by earlier start, stable
RECURSIVE SortCandidates(_)
SortCandidates(cands) ==
  IF cands = << >> THEN << >>
  ELSE InsertSorted(cands[Len(cands)],
                    SortCandidates(SubSeq(cands, 1, Len(cands) - 1)))

\* a fixed duration centred on the midpoint, not kept inside the media
ClampToDuration_NoReclamp(m, duration, media) ==
  IF duration = Auto THEN m
  ELSE LET s0 == (m.startTime + m.endTime - duration) \div 2
       IN  [m EXCEPT !.startTime = s0, !.endTime = s0 + duration]

\* step 3: a fixed duration, centred on the midpoint, kept inside the media
ClampToDuration(m, duration, media) ==
  IF duration = Auto THEN m
  ELSE LET s0 == (m.startTime + m.endTime - duration) \div 2
           s1 == IF s0 < 0 THEN 0 ELSE s0
           e1 == s1 + duration
       IN  IF e1 > media
           THEN [m EXCEPT !.startTime = Max(0, media - duration),
                          !.endTime = media]
           ELSE [m EXCEPT !.startTime = s1, !.endTime = e1]

\* Step 2 tests a candidate against "any already-accepted SelectedMoment's
\* time range", and step 3 gives an accepted candidate a fixed duration.  The
\* range of an accepted moment that later candidates are tested against is
\* either the one the detector gave it ("detected": all are accepted, then
\* all are clamped) or the one step 3 gave it ("clamped": each is clamped as
\* it is accepted).  The text allows both, and so does the model.
Readings == {"detected", "clamped"}

\* a greedy pass that does not stop at count
RECURSIVE GreedyAccept_NoStop(_, _, _, _, _, _)
GreedyAccept_NoStop(sorted, count, duration, media, reading, picked) ==
  IF sorted = << >> THEN picked
  ELSE LET c == Head(sorted)
           Against(i) == IF reading = "clamped" THEN picked[i].moment
                         ELSE picked[i].candidate
       IN  IF \A i \in 1..Len(picked) : ~Overlaps(c, Against(i))
           THEN GreedyAccept_NoStop(Tail(sorted), count, duration, media, reading,
                                    Append(picked,
                                           [ candidate |-> c,
                                             moment |-> ClampToDuration(c, duration, media) ]))
           ELSE GreedyAccept_NoStop(Tail(sorted), count, duration, media, reading,
                                    picked)

\* steps 2 to 4: accept what overlaps nothing accepted, give it its duration,
\* stop at count; picked holds the accepted candidates with their moments
RECURSIVE GreedyAccept(_, _, _, _, _, _)
GreedyAccept(sorted, count, duration, media, reading, picked) ==
  IF sorted = << >> \/ Len(picked) >= count THEN picked
  ELSE LET c == Head(sorted)
           Against(i) == IF reading = "clamped" THEN picked[i].moment
                         ELSE picked[i].candidate
       IN  IF \A i \in 1..Len(picked) : ~Overlaps(c, Against(i))
           THEN GreedyAccept(Tail(sorted), count, duration, media, reading,
                             Append(picked,
                                    [ candidate |-> c,
                                      moment |-> ClampToDuration(c, duration, media) ]))
           ELSE GreedyAccept(Tail(sorted), count, duration, media, reading, picked)

\* select(candidates, requestedCount, requestedDuration): the accepted
\* candidates and the SelectedMoments made of them, in the order of step 1
Select(cands, count, duration, media, reading) ==
  GreedyAccept(SortCandidates(cands), count, duration, media, reading, << >>)


\* ------------------------------------------------------------------------
\* State
\* ------------------------------------------------------------------------

VARIABLES
  \* Dashboard: video source form
  sourceTab, youtubeUrl, twitchUrl, uploadedFile,
  \* Dashboard: settings
  settings, customDuration,
  \* Dashboard: processing and results
  processing, progress, progressStage, clips, alertMsg,
  \* Dashboard.handleGenerate: its timers and abort signal
  tickCount, stageInterval, timeoutId, aborted,
  \* Dashboard.handleGenerate: where it is suspended, and its locals
  pc, clipSettings, response,
  \* the HTTP exchange with the generate endpoint
  conn, request,
  \* the pipeline run behind the endpoint
  stage, category, scratch, mediaDuration, candidates,
  requestedCount, requestedDuration, accepted, selected, work, record, runClips,
  \* History: the tab, the two lists, the loading flag, the confirmation dialog
  tab, activeItems, trashItems, loading, confirm,
  \* History: the handlers suspended at an await, each with what it captured
  pending,
  \* Date.now(), and the days a row of the trash shows
  now, days,
  \* the error the History page shows: a message, or "null"
  error,
  \* AuthContext: the user in memory and the one cached in localStorage
  user, cached,
  \* AuthContext: loading
  authLoading,
  \* Firebase: auth.currentUser, and the uid the listeners were last told
  currentUser, lastNotifiedUid,
  \* AuthContext: the calls suspended at an await, and how the last call of
  \* updateProfile settled
  authOps, settled

inputVars == << sourceTab, youtubeUrl, twitchUrl, uploadedFile >>

settingVars == << settings, customDuration >>

viewVars == << processing, progress, progressStage, clips, alertMsg >>

timerVars == << tickCount, stageInterval, timeoutId, aborted >>

handlerVars == << pc, clipSettings, response >>

netVars == << conn, request >>

pipeVars ==
  << stage, category, scratch, mediaDuration, candidates,
     requestedCount, requestedDuration, accepted, selected, work, record,
     runClips >>

authVars ==
  << user, cached, authLoading, currentUser, lastNotifiedUid, authOps, settled >>

historyVars ==
  << tab, activeItems, trashItems, loading, confirm, pending, now, days, error >>

\* the client: the dashboard, the history page and the auth context
dashVars ==
  << inputVars, settingVars, viewVars, timerVars, handlerVars, historyVars,
     authVars >>

vars == << dashVars, netVars, pipeVars >>

\* ------------------------------------------------------------------------
\* Inputs
\* ------------------------------------------------------------------------

\* what the user can have typed in a URL field
Urls == {"", " ", "https://v"}

Trim(u) == IF u = " " THEN "" ELSE u

NoValue == [none |-> TRUE]

\* the decimal digits, as characters
Digits == << "0", "1", "2", "3", "4", "5", "6", "7", "8", "9" >>

\* the text 'auto'
AutoText == << "a", "u", "t", "o" >>

\* String(n) of a number that is whole and not negative: its decimal
\* numeral, as a sequence of characters
RECURSIVE String(_)
String(n) ==
  IF n < 10 THEN << Digits[n + 1] >>
  ELSE String(n \div 10) \o << Digits[(n % 10) + 1] >>

\* a sequence of decimal digits
IsNumeral(text) ==
  /\ text # << >>
  /\ \A k \in 1..Len(text) : \E d \in 1..10 : Digits[d] = text[k]

\* Number(text) of a decimal numeral
RECURSIVE Number(_)
Number(text) ==
  IF text = << >> THEN 0
  ELSE 10 * Number(SubSeq(text, 1, Len(text) - 1))
         + ((CHOOSE d \in 1..10 : Digits[d] = text[Len(text)]) - 1)

\* no response has been received
NoResponse == [ok |-> FALSE, status |-> "none", clips |-> << >>, detail |-> ""]

Cand(s, e, score, why) ==
  [startTime |-> s, endTime |-> e, viralScore |-> score, reason |-> why]

\* the candidates a detector can return for a media of the given duration:
\* 0 <= start < end <= mediaDuration, on the grid
GridCandidates(media) ==
  { Cand(GridSlot * t[1], GridSlot * t[2], t[3], "ai") :
      t \in { u \in (0..MaxSlots) \X (0..MaxSlots) \X (1..MaxScore) :
                u[1] < u[2] /\ GridSlot * u[2] <= media } }

SeqsUpTo(S, n) == UNION { [1..k -> S] : k \in 0..n }

\* Scenario A: a 10-minute upload, five candidates of scores .9 .8 .7 .6 .5
\* of which only the first, third and fifth are mutually non-overlapping
ScenarioA ==
  [ mediaDuration |-> 1200,
    candidates |-> << Cand(0, 120, 9, "ai"), Cand(60, 180, 8, "ai"),
                      Cand(120, 240, 7, "ai"), Cand(200, 320, 6, "ai"),
                      Cand(240, 360, 5, "ai") >> ]

\* three candidates of which the second overlaps the first
ScenarioPair ==
  [ mediaDuration |-> 600,
    candidates |-> << Cand(0, 60, 9, "ai"), Cand(40, 100, 8, "ai"),
                      Cand(120, 180, 7, "ai") >> ]

\* two candidates of equal score, the later one listed first
ScenarioTie ==
  [ mediaDuration |-> 1200,
    candidates |-> << Cand(120, 180, 8, "ai"), Cand(0, 60, 8, "ai") >> ]

\* a one-second media without an utterance, too short for a window
ScenarioEmpty == [ mediaDuration |-> 2, candidates |-> << >> ]

\* Scenario B: a two-minute media whose detection engine is unreachable
ScenarioB == [ mediaDuration |-> 240, candidates |-> << >> ]

\* the medias of the runs the dashboard starts
RunFixtures == { ScenarioPair, ScenarioTie, ScenarioEmpty }

\* the medias of the runs of the pipeline on its own
PipelineFixtures == RunFixtures \cup { ScenarioA, ScenarioB }

\* ------------------------------------------------------------------------
\* Initial states
\* ------------------------------------------------------------------------

InitDashboard ==
  /\ settings = [duration |-> Auto, aspectRatio |-> "9:16", numberOfClips |-> 3]
  /\ customDuration = 30
  /\ processing = FALSE
  /\ progress = 0
  /\ progressStage = ""
  /\ clips = << >>
  /\ alertMsg = "none"
  /\ tickCount = 0
  /\ stageInterval = FALSE
  /\ timeoutId = FALSE
  /\ aborted = FALSE
  /\ pc = "idle"
  /\ clipSettings = NoValue
  /\ response = NoResponse
  /\ conn = "none"
  /\ request = NoValue

InitPipeline ==
  /\ stage = "None"
  /\ category = "none"
  /\ scratch = FALSE
  /\ mediaDuration = 0
  /\ candidates = << >>
  /\ requestedCount = 0
  /\ requestedDuration = Auto
  /\ accepted = << >>
  /\ selected = << >>
  /\ work = << >>
  /\ record = {}
  /\ runClips = << >>

\* no handler of the history page is suspended
NoOp == [kind |-> "none", id |-> 0, items |-> << >>, pc |-> "done"]

\* the history page as constructed: loading, nothing listed, no dialog
InitHistory ==
  /\ tab = "active"
  /\ activeItems = << >>
  /\ trashItems = << >>
  /\ loading = TRUE
  /\ confirm = NoOp
  /\ pending = [k \in 1..MaxPending |-> NoOp]
  /\ now = 0
  /\ days = NoValue
  /\ error = "null"

\* a call of the auth context that is not suspended
NoAuthOp ==
  [kind |-> "none", pc |-> "done", uid |-> "null", before |-> NoValue,
   updates |-> NoValue, res |-> NoValue]

\* AuthProvider has mounted with nothing cached and subscribed to Firebase,
\* which has not told its listeners anything yet; nobody is signed in
InitAuth ==
  /\ user = NoValue
  /\ cached = NoValue
  /\ authLoading = TRUE
  /\ currentUser = "null"
  /\ lastNotifiedUid = "undefined"
  /\ authOps = [k \in 1..MaxAuthOps |-> NoAuthOp]
  /\ settled = "none"

InitForm ==
  /\ sourceTab = "youtube"
  /\ youtubeUrl = ""
  /\ twitchUrl = ""
  /\ uploadedFile = FALSE

Init == InitForm /\ InitDashboard /\ InitPipeline /\ InitHistory /\ InitAuth

\* a run that has reached the Selecting stage, for every bounded input
InitSelect ==
  /\ InitForm
  /\ InitDashboard
  /\ InitAuth
  /\ InitHistory
  /\ stage = "Selecting"
  /\ category = "none"
  /\ scratch = TRUE
  /\ \/ /\ mediaDuration \in {GridSlot * k : k \in 1..MaxSlots}
        /\ candidates \in SeqsUpTo(GridCandidates(mediaDuration), MaxCand)
     \/ /\ mediaDuration = ScenarioA.mediaDuration
        /\ candidates = ScenarioA.candidates
  /\ requestedCount \in 1..MaxCount
  /\ requestedDuration \in {Auto} \cup {GridSlot * k : k \in 1..MaxDurSlots}
  /\ accepted = << >>
  /\ selected = << >>
  /\ work = << >>
  /\ record = {}
  /\ runClips = << >>


\* ------------------------------------------------------------------------
\* 4.7 Pipeline Orchestrator (sections 4.1-4.7, 5 and 7)
\* ------------------------------------------------------------------------

Terminal == stage \in TerminalStages

Workers == 1..Len(work)

InFlight == { i \in Workers : work[i] \in {"rendering", "publishing"} }

\* a clip that survived rendering and publishing
ClipOf(i) ==
  [ id |-> i, startTime |-> selected[i].startTime, endTime |-> selected[i].endTime,
    viralScore |-> selected[i].viralScore, viralReason |-> selected[i].reason ]

RECURSIVE ClipsFrom(_, _)
ClipsFrom(w, i) ==
  IF i > Len(w) THEN << >>
  ELSE IF w[i] = "published" THEN << ClipOf(i) >> \o ClipsFrom(w, i + 1)
  ELSE ClipsFrom(w, i + 1)

\* a clip list that reports every selected moment, failed or not
PublishedClips_AllSelected(w) == [i \in 1..Len(w) |-> ClipOf(i)]

\* the final clip list: the published clips, in the order of their moments
PublishedClips(w) == ClipsFrom(w, 1)

\* a terminal failure that releases the scratch media under the workers
\* still in flight
Fail_WorkersLeftRunning(cat) ==
  /\ stage' = "Failed"
  /\ category' = cat
  /\ scratch' = FALSE
  /\ runClips' = << >>
  /\ UNCHANGED << mediaDuration, candidates, requestedCount, requestedDuration,
                  accepted, selected, work, record >>

\* a terminal failure: the category is set, nothing is delivered, what is
\* still in flight is torn down and the scratch media is released
Fail(cat) ==
  /\ stage' = "Failed"
  /\ category' = cat
  /\ scratch' = FALSE
  /\ runClips' = << >>
  /\ work' = [i \in Workers |-> IF i \in InFlight THEN "aborted" ELSE work[i]]
  /\ UNCHANGED << mediaDuration, candidates, requestedCount, requestedDuration,
                  accepted, selected, record >>

\* generate(GenerationRequest): a request that reached the server starts a
\* run, Queued; one run at a time per user
Generate ==
  /\ conn = "sent"
  /\ stage \in {"None"} \cup TerminalStages
  /\ conn' = "open"
  /\ stage' = "Queued"
  /\ category' = "none"
  /\ scratch' = FALSE
  /\ mediaDuration' = 0
  /\ candidates' = << >>
  /\ requestedCount' = request.numberOfClips
  /\ requestedDuration' = IF request.duration = AutoText THEN Auto
                          ELSE 2 * Number(request.duration)
  /\ accepted' = << >>
  /\ selected' = << >>
  /\ work' = << >>
  /\ record' = {}
  /\ runClips' = << >>
  /\ UNCHANGED << dashVars, request >>

Dequeue ==
  /\ stage = "Queued"
  /\ stage' = "Acquiring"
  /\ UNCHANGED << category, scratch, mediaDuration, candidates, requestedCount,
                  requestedDuration, accepted, selected, work, record,
                  runClips >>
  /\ UNCHANGED << dashVars, netVars >>

\* 4.1 acquire: the media is written to the run's scratch area
Acquire(fixtures) ==
  /\ stage = "Acquiring"
  /\ \E f \in fixtures : mediaDuration' = f.mediaDuration
  /\ scratch' = TRUE
  /\ stage' = "Transcribing"
  /\ UNCHANGED << category, candidates, requestedCount, requestedDuration,
                  accepted, selected, work, record, runClips >>
  /\ UNCHANGED << dashVars, netVars >>

\* 4.2 transcribe
Transcribe ==
  /\ stage = "Transcribing"
  /\ stage' = "Detecting"
  /\ UNCHANGED << category, scratch, mediaDuration, candidates, requestedCount,
                  requestedDuration, accepted, selected, work, record,
                  runClips >>
  /\ UNCHANGED << dashVars, netVars >>

\* the score the heuristic gives its windows
HeuristicScore == 1

\* the window of the heuristic: the requested duration; for duration auto,
\* for which the design names no size, an equal share of the media
HeuristicWindow(media, count, duration) ==
  IF duration = Auto THEN media \div count ELSE duration

\* the media holds one window of the heuristic
WindowFits(media, count, duration) ==
  LET w == HeuristicWindow(media, count, duration)
  IN  w > 0 /\ media >= w

\* 4.3 says "fewer" of a media shorter than one window and not how many:
\* no window fits it ("none"), or the one window is cut to the media
\* ("whole", the clamping recommended in the design notes)
ShortMedia == {"none", "whole"}

\* the candidates of the heuristic for a media shorter than one window
ShortCandidates(media, short) ==
  IF short = "none" \/ media = 0 THEN << >>
  ELSE << Cand(0, media, HeuristicScore, "heuristic") >>

\* a heuristic that spreads its windows over the media from its start
HeuristicCandidates_Stride(media, count, duration, short) ==
  LET w == HeuristicWindow(media, count, duration)
  IN  IF ~WindowFits(media, count, duration)
      THEN ShortCandidates(media, short)
      ELSE [ i \in 1..count |->
               Cand((i - 1) * w, i * w, HeuristicScore, "heuristic") ]

\* 4.3 the deterministic fallback: requestedClipCount evenly spaced windows
\* sized to the requested duration, fewer when the media is shorter than
\* one window; each is marked as heuristic in its reason
HeuristicCandidates(media, count, duration, short) ==
  LET w == HeuristicWindow(media, count, duration)
      Start(i) == IF count = 1 THEN 0
                  ELSE ((i - 1) * (media - w)) \div (count - 1)
  IN  IF ~WindowFits(media, count, duration)
      THEN ShortCandidates(media, short)
      ELSE [ i \in 1..count |->
               Cand(Start(i), Start(i) + w, HeuristicScore, "heuristic") ]

\* 4.3 detect: the validated candidates of the engine, or the heuristic
\* fallback when the engine has no usable candidate (a transcript without
\* utterances, an unreachable engine)
Detect(fixtures) ==
  /\ stage = "Detecting"
  /\ \E f \in fixtures :
       /\ f.mediaDuration = mediaDuration
       /\ \E short \in ShortMedia :
            candidates' =
              IF f.candidates # << >> THEN f.candidates
              ELSE HeuristicCandidates(mediaDuration, requestedCount,
                                       requestedDuration, short)
  /\ stage' = "Selecting"
  /\ UNCHANGED << category, scratch, mediaDuration, requestedCount,
                  requestedDuration, accepted, selected, work, record,
                  runClips >>
  /\ UNCHANGED << dashVars, netVars >>

\* 4.4 select; every selected moment gets a render/publish worker
SelectMoments ==
  /\ stage = "Selecting"
  /\ \E reading \in Readings :
       \E picked \in { Select(candidates, requestedCount, requestedDuration,
                              mediaDuration, reading) } :
         /\ accepted' = [i \in 1..Len(picked) |-> picked[i].candidate]
         /\ selected' = [i \in 1..Len(picked) |-> picked[i].moment]
  /\ work' = [i \in 1..Len(selected') |-> "pending"]
  /\ stage' = "Rendering"
  /\ UNCHANGED << category, scratch, mediaDuration, candidates, requestedCount,
                  requestedDuration, record, runClips >>
  /\ UNCHANGED << dashVars, netVars >>

\* a stage-level error in Acquire, Transcribe or Detect aborts the run
StageError ==
  /\ \/ stage = "Acquiring" /\ Fail("SourceError")
     \/ stage = "Transcribing" /\ Fail("TranscriptionError")
     \/ stage = "Detecting" /\ Fail("DetectionError")
  /\ UNCHANGED << dashVars, netVars >>

\* what a worker's step leaves alone
WorkerFrame ==
  /\ UNCHANGED << stage, category, scratch, mediaDuration, candidates,
                  requestedCount, requestedDuration, accepted, selected,
                  runClips >>
  /\ UNCHANGED << dashVars, netVars >>

\* 4.5 render, per clip, up to RenderLimit at a time
StartRender(i) ==
  /\ stage = "Rendering"
  /\ work[i] = "pending"
  /\ Cardinality(InFlight) < RenderLimit
  /\ work' = [work EXCEPT ![i] = "rendering"]
  /\ UNCHANGED record
  /\ WorkerFrame

\* a worker that writes back the copy of the record it read before it
\* started: the last writer wins
RecordOutcome_LastWriterWins(rec, copy, i, outcome) ==
  copy \cup {[clip |-> i, outcome |-> outcome]}

\* 5 the status record is updated append-only, per clip: the outcome of a
\* clip is added to the record as it is, whatever copy the worker read
RecordOutcome(rec, copy, i, outcome) ==
  rec \cup {[clip |-> i, outcome |-> outcome]}

\* the copies of the record a worker may have read since the run started
EarlierRecords == SUBSET record

\* the outcome of one clip's render is recorded for that clip alone
FinishRender(i, ok) ==
  /\ stage = "Rendering"
  /\ work[i] = "rendering"
  /\ work' = [work EXCEPT ![i] = IF ok THEN "rendered" ELSE "renderFailed"]
  /\ \E copy \in EarlierRecords :
       record' = RecordOutcome(record, copy, i, work'[i])
  /\ WorkerFrame

\* fan-in of the renders: on to Publishing with the survivors, or Failed
RenderingDone ==
  /\ stage = "Rendering"
  /\ \A i \in Workers : work[i] \in {"rendered", "renderFailed"}
  /\ IF \E i \in Workers : work[i] = "rendered"
     THEN /\ stage' = "Publishing"
          /\ UNCHANGED << category, scratch, mediaDuration, candidates,
                          requestedCount, requestedDuration, accepted,
                          selected, work,
                          record, runClips >>
     ELSE Fail("RenderError")
  /\ UNCHANGED << dashVars, netVars >>

\* 4.6 publish, per rendered clip
StartPublish(i) ==
  /\ stage = "Publishing"
  /\ work[i] = "rendered"
  /\ work' = [work EXCEPT ![i] = "publishing"]
  /\ UNCHANGED record
  /\ WorkerFrame

FinishPublish(i, ok) ==
  /\ stage = "Publishing"
  /\ work[i] = "publishing"
  /\ work' = [work EXCEPT ![i] = IF ok THEN "published" ELSE "publishFailed"]
  /\ \E copy \in EarlierRecords :
       record' = RecordOutcome(record, copy, i, work'[i])
  /\ WorkerFrame

\* fan-in of the publishes: Completed with the published clips, or Failed
PublishingDone ==
  /\ stage = "Publishing"
  /\ \A i \in Workers : work[i] \in {"renderFailed", "published", "publishFailed"}
  /\ IF \E i \in Workers : work[i] = "published"
     THEN /\ stage' = "Completed"
          /\ runClips' = PublishedClips(work)
          /\ scratch' = FALSE
          /\ UNCHANGED << category, mediaDuration, candidates, requestedCount,
                          requestedDuration, accepted, selected, work,
                          record >>
     ELSE Fail("PublishError")
  /\ UNCHANGED << dashVars, netVars >>

\* the run exceeds its ceiling, at any stage
RunTimeout ==
  /\ stage \notin {"None"} \cup TerminalStages
  /\ Fail("Timeout")
  /\ UNCHANGED << dashVars, netVars >>

\* the run is cancelled, between stages only
Cancel ==
  /\ stage \notin {"None"} \cup TerminalStages
  /\ InFlight = {}
  /\ Fail("Cancelled")
  /\ UNCHANGED << dashVars, netVars >>

PipelineStep(fixtures) ==
  \/ Dequeue \/ Acquire(fixtures) \/ Transcribe \/ Detect(fixtures)
  \/ SelectMoments \/ StageError
  \/ \E i \in Workers : StartRender(i)
  \/ \E i \in Workers, ok \in BOOLEAN : FinishRender(i, ok)
  \/ RenderingDone
  \/ \E i \in Workers : StartPublish(i)
  \/ \E i \in Workers, ok \in BOOLEAN : FinishPublish(i, ok)
  \/ PublishingDone
  \/ RunTimeout \/ Cancel


\* ------------------------------------------------------------------------
\* Dashboard (src/src/types/index.ts)
\* ------------------------------------------------------------------------

\* the form is rendered only when there are no results and no run
FormVisible == clips = << >> /\ ~processing

isReady ==
  \/ sourceTab = "youtube" /\ Trim(youtubeUrl) # ""
  \/ sourceTab = "twitch" /\ Trim(twitchUrl) # ""
  \/ sourceTab = "upload" /\ uploadedFile

\* const stages = sourceTab === 'upload' ? UPLOAD_STAGES : PROCESSING_STAGES
StagesOf(which) == IF which = "upload" THEN UPLOAD_STAGES ELSE PROCESSING_STAGES

\* Math.min(Math.floor((next / 100) * stages.length), stages.length - 1)
StageIdx(next, stages) ==
  Min((next * Len(stages)) \div 100, Len(stages) - 1)

SetSourceTab(which) ==
  /\ FormVisible
  /\ sourceTab' = which
  /\ UNCHANGED << youtubeUrl, twitchUrl, uploadedFile >>
  /\ UNCHANGED << settingVars, historyVars, authVars, viewVars, timerVars, handlerVars,
                  netVars, pipeVars >>

SetYoutubeUrl(u) ==
  /\ FormVisible
  /\ sourceTab = "youtube"
  /\ youtubeUrl' = u
  /\ UNCHANGED << sourceTab, twitchUrl, uploadedFile >>
  /\ UNCHANGED << settingVars, historyVars, authVars, viewVars, timerVars, handlerVars,
                  netVars, pipeVars >>

SetTwitchUrl(u) ==
  /\ FormVisible
  /\ sourceTab = "twitch"
  /\ twitchUrl' = u
  /\ UNCHANGED << sourceTab, youtubeUrl, uploadedFile >>
  /\ UNCHANGED << settingVars, historyVars, authVars, viewVars, timerVars, handlerVars,
                  netVars, pipeVars >>

\* the values of the duration buttons
DurationPresets == {Auto, 15, 30, 45, 60}

\* the range input of the custom duration: min, max
SliderMin == 5
SliderMax == 120

\* the values of the aspect ratio buttons
ASPECT_RATIOS == {"9:16", "1:1", "4:5", "16:9"}

\* the values of the clip count buttons
ClipCounts == {1, 2, 3, 5, 10}

\* the settings panel is part of the form
SettingsFrame ==
  /\ FormVisible
  /\ UNCHANGED << inputVars, viewVars, timerVars, handlerVars, netVars, pipeVars,
                  historyVars, authVars >>

\* a duration button that leaves the custom duration as it was
SetDuration_SettingsOnly(d) ==
  /\ settings' = [settings EXCEPT !.duration = d]
  /\ UNCHANGED customDuration
  /\ SettingsFrame

\* a duration button: 'auto', or a number that also becomes the custom
\* duration
SetDuration(d) ==
  /\ settings' = [settings EXCEPT !.duration = d]
  /\ customDuration' = IF d # Auto THEN d ELSE customDuration
  /\ SettingsFrame

\* the range input, shown while the duration is not 'auto': its value, a
\* numeral, becomes both the custom duration and the duration
SetCustomDuration(value) ==
  /\ settings.duration # Auto
  /\ customDuration' = Number(value)
  /\ settings' = [settings EXCEPT !.duration = Number(value)]
  /\ SettingsFrame

SetAspectRatio(value) ==
  /\ settings' = [settings EXCEPT !.aspectRatio = value]
  /\ UNCHANGED customDuration
  /\ SettingsFrame

SetNumberOfClips(n) ==
  /\ settings' = [settings EXCEPT !.numberOfClips = n]
  /\ UNCHANGED customDuration
  /\ SettingsFrame

\* handleFileSelect / handleFileDrop
handleFileSelect ==
  /\ FormVisible
  /\ sourceTab = "upload"
  /\ uploadedFile' = TRUE
  /\ UNCHANGED << sourceTab, youtubeUrl, twitchUrl >>
  /\ UNCHANGED << settingVars, historyVars, authVars, viewVars, timerVars, handlerVars,
                  netVars, pipeVars >>

\* handleGenerate up to its first await
handleGenerate ==
  /\ FormVisible
  /\ isReady
  /\ processing' = TRUE
  /\ progress' = 0
  /\ clips' = << >>
  /\ tickCount' = 0
  /\ stageInterval' = TRUE
  /\ timeoutId' = TRUE
  /\ aborted' = FALSE
  /\ clipSettings' =
       [ duration |-> IF settings.duration = Auto THEN AutoText
                      ELSE String(customDuration),
         aspectRatio |-> settings.aspectRatio,
         numberOfClips |-> settings.numberOfClips ]
  /\ pc' = "getIdToken"
  /\ alertMsg' = "none"
  /\ response' = NoResponse
  /\ UNCHANGED progressStage
  /\ UNCHANGED << inputVars, settingVars, historyVars, authVars, netVars, pipeVars >>

\* an updater that starts over when it reaches the cap
NextProgress_Wrap(prev, ticks) ==
  IF prev >= ProgressCap THEN 0
  ELSE IF prev >= SlowFrom /\ ticks % SlowEvery # 0 THEN prev
  ELSE Min(prev + 1, ProgressCap)

\* the updater of setProgress in the stageInterval callback
NextProgress(prev, ticks) ==
  IF prev >= ProgressCap THEN ProgressCap
  ELSE IF prev >= SlowFrom /\ ticks % SlowEvery # 0 THEN prev
  ELSE Min(prev + 1, ProgressCap)

\* one firing of stageInterval
stageIntervalTick ==
  /\ stageInterval
  /\ tickCount < MaxTicks
  /\ tickCount' = tickCount + 1
  /\ progress' = NextProgress(progress, tickCount')
  /\ progressStage' =
       IF progress >= ProgressCap \/ progress' = progress
       THEN progressStage
       ELSE StagesOf(sourceTab)[StageIdx(progress', StagesOf(sourceTab)) + 1]
  /\ UNCHANGED << processing, clips, alertMsg, stageInterval, timeoutId, aborted >>
  /\ UNCHANGED << inputVars, settingVars, historyVars, authVars, handlerVars, netVars, pipeVars >>

\* The model follows the run that serves the pending request.  When the
\* exchange is over (answered, failed or aborted) the run can no longer
\* reach the caller and is dropped from the state, together with the dead
\* locals of the handler (tickCount, clipSettings).
ExchangeOver ==
  /\ tickCount' = 0
  /\ clipSettings' = NoValue
  /\ conn' = "none"
  /\ request' = NoValue
  /\ stage' = "None"
  /\ category' = "none"
  /\ scratch' = FALSE
  /\ mediaDuration' = 0
  /\ candidates' = << >>
  /\ requestedCount' = 0
  /\ requestedDuration' = Auto
  /\ accepted' = << >>
  /\ selected' = << >>
  /\ work' = << >>
  /\ record' = {}
  /\ runClips' = << >>

\* a catch block without the branch for AbortError
Catch_NoAbortBranch(name, message) ==
  /\ stageInterval' = FALSE
  /\ timeoutId' = FALSE
  /\ alertMsg' = message
  /\ processing' = FALSE
  /\ pc' = "idle"
  /\ UNCHANGED << progress, progressStage, clips, response >>
  /\ ExchangeOver

\* the catch and finally blocks
Catch(name, message) ==
  /\ stageInterval' = FALSE
  /\ timeoutId' = FALSE
  /\ alertMsg' = IF name = "AbortError" THEN "timeout" ELSE message
  /\ processing' = FALSE
  /\ pc' = "idle"
  /\ UNCHANGED << progress, progressStage, clips, response >>
  /\ ExchangeOver

\* the 15-minute timer fires: controller.abort(); a pending fetch rejects
\* with AbortError
abortTimeout ==
  /\ timeoutId
  /\ IF pc = "fetch"
     THEN /\ aborted' = TRUE
          /\ Catch("AbortError", "The user aborted a request.")
     ELSE /\ timeoutId' = FALSE
          /\ aborted' = TRUE
          /\ UNCHANGED << viewVars, tickCount, stageInterval, handlerVars,
                          netVars, pipeVars >>
  /\ UNCHANGED << inputVars, settingVars, historyVars, authVars >>

\* await getIdToken() resolves (a token, or null without a Firebase user);
\* the fetch is issued, and rejects at once if the signal is already aborted
getIdTokenResolves ==
  /\ pc = "getIdToken"
  /\ IF aborted
     THEN /\ Catch("AbortError", "The user aborted a request.")
          /\ UNCHANGED aborted
     ELSE /\ pc' = "fetch"
          /\ conn' = "sent"
          /\ request' = [ source |-> sourceTab,
                          duration |-> clipSettings.duration,
                          aspectRatio |-> clipSettings.aspectRatio,
                          numberOfClips |-> clipSettings.numberOfClips ]
          /\ UNCHANGED << viewVars, timerVars, clipSettings, response, pipeVars >>
  /\ UNCHANGED << inputVars, settingVars, historyVars, authVars >>

\* await getIdToken() rejects
getIdTokenRejects ==
  /\ pc = "getIdToken"
  /\ Catch("FirebaseError", "auth/network-request-failed")
  /\ UNCHANGED << aborted, inputVars, settingVars, historyVars, authVars >>

\* the fetch rejects: the server cannot be reached or the connection drops
fetchRejects ==
  /\ pc = "fetch"
  /\ Catch("TypeError", "Failed to fetch")
  /\ UNCHANGED << aborted, inputVars, settingVars, historyVars, authVars >>

\* the server's answer for a finished run: 200 with the clips of a Completed
\* run, an error status with the category of a Failed one
ResponseOf ==
  IF stage = "Completed"
  THEN [ok |-> TRUE, status |-> "completed", clips |-> runClips, detail |-> ""]
  ELSE [ok |-> FALSE, status |-> "failed", clips |-> << >>, detail |-> category]

\* the fetch resolves and the timers are left running
fetchResolves_TimersLeft ==
  /\ pc = "fetch"
  /\ conn = "open"
  /\ Terminal
  /\ response' = ResponseOf
  /\ pc' = IF response'.ok THEN "json" ELSE "errJson"
  /\ UNCHANGED << viewVars, timerVars, clipSettings, netVars, pipeVars >>
  /\ UNCHANGED << inputVars, settingVars, historyVars, authVars >>

\* the fetch resolves with the response's status line and headers:
\* clearInterval, clearTimeout, then the body is awaited
fetchResolves ==
  /\ pc = "fetch"
  /\ conn = "open"
  /\ Terminal
  /\ response' = ResponseOf
  /\ stageInterval' = FALSE
  /\ timeoutId' = FALSE
  /\ pc' = IF response'.ok THEN "json" ELSE "errJson"
  /\ UNCHANGED << viewVars, tickCount, aborted, clipSettings, netVars, pipeVars >>
  /\ UNCHANGED << inputVars, settingVars, historyVars, authVars >>

\* jsonResolves without setClips(data.clips || [])
jsonResolves_NoSetClips ==
  /\ pc = "json"
  /\ IF response.status = "completed"
     THEN /\ progress' = 100
          /\ progressStage' = "Done!"
          /\ UNCHANGED clips
     ELSE UNCHANGED << progress, progressStage, clips >>
  /\ processing' = FALSE
  /\ pc' = "idle"
  /\ UNCHANGED << alertMsg, stageInterval, timeoutId, aborted, response >>
  /\ ExchangeOver
  /\ UNCHANGED << inputVars, settingVars, historyVars, authVars >>

\* await response.json() of an OK response resolves
jsonResolves ==
  /\ pc = "json"
  /\ IF response.status = "completed"
     THEN /\ progress' = 100
          /\ progressStage' = "Done!"
          /\ clips' = response.clips
     ELSE UNCHANGED << progress, progressStage, clips >>
  /\ processing' = FALSE
  /\ pc' = "idle"
  /\ UNCHANGED << alertMsg, stageInterval, timeoutId, aborted, response >>
  /\ ExchangeOver
  /\ UNCHANGED << inputVars, settingVars, historyVars, authVars >>

\* await response.json() of an OK response rejects
jsonRejects ==
  /\ pc = "json"
  /\ Catch("SyntaxError", "Unexpected end of JSON input")
  /\ UNCHANGED << aborted, inputVars, settingVars, historyVars, authVars >>

\* await response.json().catch(() => ({})) of an error response settles:
\* throw new Error(errData.detail || `Server error ${response.status}`)
errJsonSettles(parsed) ==
  /\ pc = "errJson"
  /\ Catch("Error", IF parsed /\ response.detail # ""
                    THEN response.detail ELSE "Server error")
  /\ UNCHANGED << aborted, inputVars, settingVars, historyVars, authVars >>

handleReset ==
  /\ clips # << >>
  /\ clips' = << >>
  /\ youtubeUrl' = ""
  /\ twitchUrl' = ""
  /\ uploadedFile' = FALSE
  /\ progress' = 0
  /\ UNCHANGED << sourceTab, processing, progressStage, alertMsg >>
  /\ UNCHANGED << settingVars, historyVars, authVars, timerVars, handlerVars, netVars, pipeVars >>

\* the video source form and the results view
FormStep ==
  \/ \E which \in SourceTabs : SetSourceTab(which)
  \/ \E u \in Urls : SetYoutubeUrl(u)
  \/ \E u \in Urls : SetTwitchUrl(u)
  \/ handleFileSelect
  \/ handleReset

\* the settings panel
SettingsStep ==
  \/ \E d \in DurationPresets : SetDuration(d)
  \/ \E v \in SliderMin..SliderMax : SetCustomDuration(String(v))
  \/ \E value \in ASPECT_RATIOS : SetAspectRatio(value)
  \/ \E n \in ClipCounts : SetNumberOfClips(n)

\* one call of handleGenerate, its timers and its continuations
GenerateStep ==
  \/ handleGenerate
  \/ stageIntervalTick
  \/ abortTimeout
  \/ getIdTokenResolves
  \/ getIdTokenRejects
  \/ fetchRejects
  \/ fetchResolves
  \/ jsonResolves
  \/ jsonRejects
  \/ \E parsed \in BOOLEAN : errJsonSettles(parsed)

\* ------------------------------------------------------------------------
\* History (src/src/pages/History.tsx)
\* ------------------------------------------------------------------------

\* 24 * 60 * 60 * 1000: the milliseconds of a day
DayMs == 86400000

\* the days a deleted item is kept
RetentionDays == 10

\* the milliseconds of an hour, a minute, a second
HourMs == 3600000
MinuteMs == 60000
SecondMs == 1000

\* new Date(ms).toISOString(): the date (as the day since the epoch) and
\* the hours, minutes, seconds and milliseconds of the UTC time
toISOString(ms) ==
  [ date |-> ms \div DayMs,
    hours |-> (ms % DayMs) \div HourMs,
    minutes |-> (ms % HourMs) \div MinuteMs,
    seconds |-> (ms % MinuteMs) \div SecondMs,
    millis |-> ms % SecondMs ]

\* new Date(iso).getTime()
getTime(iso) ==
  iso.date * DayMs + iso.hours * HourMs + iso.minutes * MinuteMs
    + iso.seconds * SecondMs + iso.millis

\* Math.ceil(a / b) for b > 0
Ceil(a, b) == -((-a) \div b)

\* a count of the whole days that have passed of a window that starts at
\* the deletion
daysUntilPurge_RoundDown(deletedAt, dateNow) ==
  LET purgeTime == getTime(deletedAt) + RetentionDays * DayMs
  IN  Max(0, (purgeTime - dateNow) \div DayMs)

\* daysUntilPurge(deletedAt), at Date.now() = dateNow
daysUntilPurge(deletedAt, dateNow) ==
  LET purgeTime == getTime(deletedAt) + RetentionDays * DayMs
  IN  Max(0, Ceil(purgeTime - dateNow, DayMs))

\* the instants of a deletion
DeletionTimes == {0, 1, HourMs + MinuteMs + SecondMs + 1, DayMs - 1, DayMs}

\* the instants the clock shows from a deletion on: the days after it, each
\* to the millisecond before and after, and at its half
InstantsFrom(d) ==
  { t \in { d + k * DayMs + e :
              k \in 0..MaxDays, e \in {-1, 0, 1, DayMs \div 2} } : t >= d }

\* time passes
ClockAdvances(t) ==
  /\ trashItems # << >>
  /\ t \in InstantsFrom(getTime(trashItems[1].deletedAt))
  /\ t > now
  /\ now' = t
  /\ UNCHANGED << tab, activeItems, trashItems, loading, confirm, pending, days, error >>
  /\ UNCHANGED << inputVars, settingVars, viewVars, timerVars, handlerVars,
                  authVars, netVars, pipeVars >>

\* HistoryRow renders the first row of the trash:
\* days = item.deletedAt ? daysUntilPurge(item.deletedAt) : null
HistoryRow ==
  /\ ~loading
  /\ tab = "trash"
  /\ trashItems # << >>
  /\ trashItems[1].deletedAt # NoValue
  /\ days' = [ deletedAt |-> trashItems[1].deletedAt, at |-> now,
               left |-> daysUntilPurge(trashItems[1].deletedAt, now) ]
  /\ UNCHANGED << tab, activeItems, trashItems, loading, confirm, pending, now,
                  error >>
  /\ UNCHANGED << inputVars, settingVars, viewVars, timerVars, handlerVars,
                  authVars, netVars, pipeVars >>

\* the ids of the history items
ItemIds == 1..MaxItems

Ids(items) == { items[k].id : k \in 1..Len(items) }

\* items.find(i => i.id === id): the first such item, or undefined
Find(items, id) ==
  IF id \in Ids(items)
  THEN items[CHOOSE k \in 1..Len(items) :
               /\ items[k].id = id
               /\ \A j \in 1..(k - 1) : items[j].id # id]
  ELSE NoValue

\* items.filter(i => i.id !== id)
Without(items, id) == SelectSeq(items, LAMBDA i : i.id # id)

\* items.map(i => ({ ...i, deletedAt }))
WithDeletedAt(items, deletedAt) ==
  [k \in 1..Len(items) |-> [items[k] EXCEPT !.deletedAt = deletedAt]]

\* the orders of a set of ids
Orderings(S) ==
  { order \in [1..Cardinality(S) -> S] :
      \A j, k \in 1..Cardinality(S) : order[j] = order[k] => j = k }

\* the lists of the ids of S, each id in one order of S
Listings ==
  UNION { Orderings(S) : S \in SUBSET ItemIds }

\* what GET /api/clips/history can answer: every item in at most one of
\* active and trash, once, the trashed ones with their deletion time
ServerData ==
  { d \in { [ active |-> [k \in 1..Len(a) |->
                             [id |-> a[k], deletedAt |-> NoValue]],
              trash |-> [k \in 1..Len(t) |->
                           [id |-> t[k], deletedAt |-> toISOString(now)]] ] :
              a \in Listings, t \in Listings } :
      Ids(d.active) \cap Ids(d.trash) = {} }

HistoryFrame ==
  UNCHANGED << inputVars, settingVars, viewVars, timerVars, handlerVars,
               authVars, netVars, pipeVars >>

\* the rows are rendered unless the page is loading, and the confirmation
\* dialog, while it is open, covers the page
DialogOpen == confirm # NoOp

RowsVisible == ~loading /\ ~DialogOpen

\* the handlers that are not suspended
Free == { k \in 1..MaxPending : pending[k] = NoOp }

\* an async handler reaches its first await
Suspend(op) ==
  /\ Free # {}
  /\ pending' = [pending EXCEPT
                   ![CHOOSE k \in Free : \A j \in Free : k <= j] = op]

\* the tab buttons
setTab(t) ==
  /\ ~DialogOpen
  /\ t # tab
  /\ tab' = t
  /\ UNCHANGED << activeItems, trashItems, loading, confirm, pending, now, days, error >>
  /\ HistoryFrame

\* fetchHistory to its first await: by the effect on mount and by the
\* refresh button; setLoading(true); setError(null)
fetchHistory ==
  /\ ~DialogOpen
  /\ loading' = TRUE
  /\ error' = "null"
  /\ Suspend([kind |-> "fetch", id |-> 0, items |-> << >>, pc |-> "getIdToken"])
  /\ UNCHANGED << tab, activeItems, trashItems, confirm, now, days >>
  /\ HistoryFrame

\* a handler that runs doIt without asking
AskConfirm_WithoutAsking(kind, id, items) ==
  /\ Suspend([kind |-> kind, id |-> id, items |-> items, pc |-> "getIdToken"])
  /\ UNCHANGED << tab, activeItems, trashItems, loading, confirm, now, days,
                  error >>
  /\ HistoryFrame

\* a handler that asks for confirmation: doIt, with the lists of the render
\* it was created in, waits in the dialog
AskConfirm(kind, id, items) ==
  /\ confirm' = [kind |-> kind, id |-> id, items |-> items, pc |-> "confirm"]
  /\ UNCHANGED << tab, activeItems, trashItems, loading, pending, now, days, error >>
  /\ HistoryFrame

\* handleSoftDelete(id), by the delete button of an active row
handleSoftDelete(id) ==
  /\ RowsVisible
  /\ tab = "active"
  /\ id \in Ids(activeItems)
  /\ AskConfirm("softDelete", id, activeItems)

\* handlePermanentDelete(id), by the delete button of a trashed row
handlePermanentDelete(id) ==
  /\ RowsVisible
  /\ tab = "trash"
  /\ id \in Ids(trashItems)
  /\ AskConfirm("permanentDelete", id, trashItems)

\* handleClearAll, by the button shown while the active list is not empty
handleClearAll ==
  /\ ~DialogOpen
  /\ tab = "active"
  /\ activeItems # << >>
  /\ AskConfirm("clearAll", 0, activeItems)

\* handleEmptyTrash, by the button shown while the trash is not empty; doIt
\* reads the trash for its requests alone
handleEmptyTrash ==
  /\ ~DialogOpen
  /\ tab = "trash"
  /\ trashItems # << >>
  /\ AskConfirm("emptyTrash", 0, << >>)

\* the dialog's Cancel
onCancel ==
  /\ DialogOpen
  /\ confirm' = NoOp
  /\ UNCHANGED << tab, activeItems, trashItems, loading, pending, now, days, error >>
  /\ HistoryFrame

\* the dialog's confirm button: doIt to its first await; handleClearAll's
\* doIt stamps the items it captured before it awaits
onConfirm ==
  /\ DialogOpen
  /\ confirm' = NoOp
  /\ Suspend([confirm EXCEPT
                !.pc = "getIdToken",
                !.items = IF confirm.kind = "clearAll"
                          THEN WithDeletedAt(confirm.items, toISOString(now))
                          ELSE confirm.items])
  /\ UNCHANGED << tab, activeItems, trashItems, loading, now, days, error >>
  /\ HistoryFrame

\* handleRestore(id), by the restore button of a trashed row, to its first
\* await
handleRestore(id) ==
  /\ RowsVisible
  /\ tab = "trash"
  /\ id \in Ids(trashItems)
  /\ Suspend([kind |-> "restore", id |-> id, items |-> trashItems,
              pc |-> "getIdToken"])
  /\ UNCHANGED << tab, activeItems, trashItems, loading, confirm, now, days, error >>
  /\ HistoryFrame

\* handleSoftDelete.doIt after its try block
AfterSoftDelete(op, active, trash, at) ==
  LET item == Find(op.items, op.id)
  IN  IF item = NoValue THEN [active |-> active, trash |-> trash]
      ELSE [ active |-> Without(active, op.id),
             trash |-> << [item EXCEPT !.deletedAt = toISOString(at)] >>
                         \o trash ]

\* handleRestore after its try block
AfterRestore(op, active, trash) ==
  LET item == Find(op.items, op.id)
  IN  IF item = NoValue THEN [active |-> active, trash |-> trash]
      ELSE [ active |-> << [item EXCEPT !.deletedAt = NoValue] >> \o active,
             trash |-> Without(trash, op.id) ]

\* handlePermanentDelete.doIt after its try block: setTrashItems(newTrash)
AfterPermanentDelete(op, active, trash) ==
  [active |-> active, trash |-> Without(op.items, op.id)]

\* handleClearAll.doIt after its await
AfterClearAll(op, active, trash) ==
  [active |-> << >>, trash |-> op.items \o trash]

\* handleEmptyTrash.doIt after its await
AfterEmptyTrash(op, active, trash) ==
  [active |-> active, trash |-> << >>]

\* the lists a handler leaves when it ends
After(op, active, trash, at) ==
  CASE op.kind = "softDelete" -> AfterSoftDelete(op, active, trash, at)
    [] op.kind = "restore" -> AfterRestore(op, active, trash)
    [] op.kind = "permanentDelete" -> AfterPermanentDelete(op, active, trash)
    [] op.kind = "clearAll" -> AfterClearAll(op, active, trash)
    [] op.kind = "emptyTrash" -> AfterEmptyTrash(op, active, trash)

\* a handler runs from its last await to its end
Finish(k) ==
  /\ \E lists \in { After(pending[k], activeItems, trashItems, now) } :
       /\ Len(lists.active) <= MaxList
       /\ Len(lists.trash) <= MaxList
       /\ activeItems' = lists.active
       /\ trashItems' = lists.trash
  /\ pending' = [pending EXCEPT ![k] = NoOp]
  /\ UNCHANGED << tab, loading, confirm, now, days, error >>

\* a handler ends by a rejection that nothing catches
Unhandled(k) ==
  /\ pending' = [pending EXCEPT ![k] = NoOp]
  /\ UNCHANGED << tab, activeItems, trashItems, loading, confirm, now, days, error >>

\* fetchHistory ends with the lists of the answer, or without a token with
\* the lists as they are: the error is the one the page shows already
FetchEnds(k, active, trash) ==
  /\ activeItems' = active
  /\ trashItems' = trash
  /\ loading' = FALSE
  /\ pending' = [pending EXCEPT ![k] = NoOp]
  /\ UNCHANGED << tab, confirm, now, days, error >>

\* the messages of the catch block of fetchHistory
CouldNotReach == "Could not reach backend. Please check your connection."

ServerError == "Server error"

FailedToLoad == "Failed to load history."

\* fetchHistory ends in its catch block: the error is set and both lists
\* are emptied
FetchFails(k, message) ==
  /\ error' = message
  /\ activeItems' = << >>
  /\ trashItems' = << >>
  /\ loading' = FALSE
  /\ pending' = [pending EXCEPT ![k] = NoOp]
  /\ UNCHANGED << tab, confirm, now, days >>

TokenOutcomes == {"token", "null", "rejected"}

\* await getIdToken() settles in the handler k: with a token, with null
\* (nobody is signed in), or rejected
getIdTokenSettles(k, outcome) ==
  /\ pending[k].pc = "getIdToken"
  /\ IF pending[k].kind \in {"softDelete", "restore", "permanentDelete"}
     THEN IF outcome = "rejected"
          THEN Finish(k)
          ELSE /\ pending' = [pending EXCEPT ![k].pc = "fetch"]
               /\ UNCHANGED << tab, activeItems, trashItems, loading, confirm,
                               now, days, error >>
     ELSE IF pending[k].kind \in {"clearAll", "emptyTrash"}
     THEN IF outcome = "rejected" THEN Unhandled(k) ELSE Finish(k)
     ELSE IF outcome = "rejected" THEN FetchFails(k, FailedToLoad)
     ELSE IF outcome = "null" THEN FetchEnds(k, activeItems, trashItems)
     ELSE /\ pending' = [pending EXCEPT ![k].pc = "fetch"]
          /\ UNCHANGED << tab, activeItems, trashItems, loading, confirm,
                          now, days, error >>
  /\ HistoryFrame

FetchOutcomes == {"ok", "notOk", "rejected"}

\* await fetch(...) settles in the handler k: the request of an item's
\* handler, whose outcome is not looked at, or the request of fetchHistory
\* with its answer, with a status that is not OK, or rejected
fetchSettles(k, outcome) ==
  /\ pending[k].pc = "fetch"
  /\ IF pending[k].kind = "fetch"
     THEN CASE outcome = "ok" ->
                 \E data \in ServerData : FetchEnds(k, data.active, data.trash)
            [] outcome = "notOk" -> FetchFails(k, ServerError)
            [] outcome = "rejected" -> FetchFails(k, CouldNotReach)
     ELSE Finish(k)
  /\ HistoryFrame

HistoryStep ==
  \/ \E t \in {"active", "trash"} : setTab(t)
  \/ fetchHistory
  \/ \E id \in ItemIds : handleSoftDelete(id)
  \/ \E id \in ItemIds : handleRestore(id)
  \/ \E id \in ItemIds : handlePermanentDelete(id)
  \/ handleClearAll
  \/ handleEmptyTrash
  \/ onCancel
  \/ onConfirm
  \/ \E k \in 1..MaxPending, outcome \in TokenOutcomes :
       getIdTokenSettles(k, outcome)
  \/ \E k \in 1..MaxPending, outcome \in FetchOutcomes :
       fetchSettles(k, outcome)

\* ------------------------------------------------------------------------
\* AuthContext
\* ------------------------------------------------------------------------

\* Strings that are searched are sequences of characters.
Username == <<"u","s","e","r","n","a","m","e">>

Upper == <<"A","B","C","D","E","F","G","H","I","J","K","L","M",
           "N","O","P","Q","R","S","T","U","V","W","X","Y","Z">>

Lower == <<"a","b","c","d","e","f","g","h","i","j","k","l","m",
           "n","o","p","q","r","s","t","u","v","w","x","y","z">>

\* s.toLowerCase()
toLowerCase(s) ==
  [k \in 1..Len(s) |->
     IF \E j \in 1..Len(Upper) : Upper[j] = s[k]
     THEN Lower[CHOOSE j \in 1..Len(Upper) : Upper[j] = s[k]]
     ELSE s[k]]

\* s.includes(part)
includes(s, part) ==
  \E at \in 0..(Len(s) - Len(part)) :
    \A k \in 1..Len(part) : s[at + k] = part[k]

\* a field that is not there
Undefined == "undefined"

\* u.field of an object
Get(u, field) == IF field \in DOMAIN u THEN u[field] ELSE Undefined

\* { ...a, ...b }
Spread(a, b) ==
  [f \in DOMAIN a \cup DOMAIN b |-> IF f \in DOMAIN b THEN b[f] ELSE a[f]]

\* JSON.stringify(u): the fields that are defined
stringify(u) == [f \in { g \in DOMAIN u : u[g] # Undefined } |-> u[f]]

\* a || b of two strings
Or(a, b) == IF a \in {Undefined, ""} THEN b ELSE a

\* the account Firebase signs in with Google
FirebaseUser == [uid |-> "uid", displayName |-> "Ann"]

\* the profile documents GET /api/user/profile can answer with: a new
\* profile and a filled one
DbDocs ==
  { [displayName |-> "", username |-> ""],
    [displayName |-> "Ann B", username |-> "ann"] }

\* mergeWithDbProfile(base, dbDoc)
mergeWithDbProfile(base, dbDoc) ==
  Spread(base, [displayName |-> Or(Get(dbDoc, "displayName"), base.displayName),
                username |-> Or(Get(dbDoc, "username"), Undefined)])

\* setAndCache(u)
setAndCache(u) ==
  /\ user' = u
  /\ cached' = IF u # NoValue THEN stringify(u) ELSE NoValue

AuthFrame ==
  UNCHANGED << inputVars, settingVars, viewVars, timerVars, handlerVars,
               historyVars, netVars, pipeVars >>

\* the calls that are not suspended
FreeAuth == { k \in 1..MaxAuthOps : authOps[k] = NoAuthOp }

Awaiting(kind) == { k \in 1..MaxAuthOps : authOps[k].kind = kind }

\* an async function of the context reaches its first await
AuthSuspend(op) ==
  /\ FreeAuth # {}
  /\ authOps' = [authOps EXCEPT
                   ![CHOOSE k \in FreeAuth : \A j \in FreeAuth : k <= j] = op]

AuthEnds(k) == authOps' = [authOps EXCEPT ![k] = NoAuthOp]

\* what is typed into the login and signup forms: the email in its two
\* parts around the @, and the name
Emails == { <<"bea", "x.io">> }

Names == { "Bea" }

\* 'u_' + Date.now()
MockId == "u_" \o ToString(now)

\* login(email, password) and signup(email, password, name), to the timer
login(email) ==
  /\ user = NoValue
  /\ Awaiting("login") \cup Awaiting("signIn") = {}
  /\ AuthSuspend([NoAuthOp EXCEPT
                    !.kind = "login", !.pc = "timer",
                    !.before = [displayName |-> email[1]]])
  /\ UNCHANGED << user, cached, authLoading, currentUser, lastNotifiedUid,
                  settled >>
  /\ AuthFrame

signup(email, name) ==
  /\ user = NoValue
  /\ Awaiting("login") \cup Awaiting("signIn") = {}
  /\ AuthSuspend([NoAuthOp EXCEPT
                    !.kind = "login", !.pc = "timer",
                    !.before = [displayName |-> name]])
  /\ UNCHANGED << user, cached, authLoading, currentUser, lastNotifiedUid,
                  settled >>
  /\ AuthFrame

\* the timer of login or signup fires: setAndCache(u); setLoading(false)
loginTimer(k) ==
  /\ authOps[k].pc = "timer"
  /\ setAndCache(Spread([id |-> MockId], authOps[k].before))
  /\ authLoading' = FALSE
  /\ AuthEnds(k)
  /\ UNCHANGED << currentUser, lastNotifiedUid, settled >>
  /\ AuthFrame

\* Firebase tells the listener of onAuthStateChanged that the signed-in
\* user has become cur, in the step in which the call k ends; it tells
\* nothing when the uid is the one it told last. The callback runs to its
\* end without a user, and to its first await with one.
Notify(k, cur) ==
  IF lastNotifiedUid = cur
  THEN /\ AuthEnds(k)
       /\ UNCHANGED << user, cached, authLoading, lastNotifiedUid >>
  ELSE /\ lastNotifiedUid' = cur
       /\ IF cur = "null"
          THEN /\ setAndCache(NoValue)
               /\ authLoading' = FALSE
               /\ AuthEnds(k)
          ELSE /\ authOps' = [authOps EXCEPT
                               ![k] = [NoAuthOp EXCEPT
                                         !.kind = "listener",
                                         !.pc = "getIdToken",
                                         !.uid = cur]]
               /\ UNCHANGED << user, cached, authLoading >>

\* Firebase has initialised with nobody signed in and tells the listener
authStateReady ==
  /\ lastNotifiedUid = "undefined"
  /\ lastNotifiedUid' = currentUser
  /\ setAndCache(NoValue)
  /\ authLoading' = FALSE
  /\ UNCHANGED << currentUser, authOps, settled >>
  /\ AuthFrame

\* loginWithGoogle, to its await
loginWithGoogle ==
  /\ user = NoValue
  /\ Awaiting("login") \cup Awaiting("signIn") = {}
  /\ AuthSuspend([NoAuthOp EXCEPT !.kind = "signIn", !.pc = "popup"])
  /\ UNCHANGED << user, cached, authLoading, currentUser, lastNotifiedUid,
                  settled >>
  /\ AuthFrame

\* await signInWithPopup(auth, googleProvider) settles
signInWithPopupSettles(k, ok) ==
  /\ authOps[k].pc = "popup"
  /\ lastNotifiedUid # "undefined"
  /\ IF ok
     THEN /\ currentUser' = FirebaseUser.uid
          /\ Notify(k, FirebaseUser.uid)
     ELSE /\ AuthEnds(k)
          /\ UNCHANGED << user, cached, authLoading, currentUser,
                          lastNotifiedUid >>
  /\ UNCHANGED settled
  /\ AuthFrame

\* the listener's await firebaseUser.getIdToken() settles; nothing catches
\* its rejection
listenerToken(k, ok) ==
  /\ authOps[k].kind = "listener"
  /\ authOps[k].pc = "getIdToken"
  /\ authOps' = [authOps EXCEPT
                   ![k] = IF ok THEN [@ EXCEPT !.pc = "apiFetch"] ELSE NoAuthOp]
  /\ UNCHANGED << user, cached, authLoading, currentUser, lastNotifiedUid,
                  settled >>
  /\ AuthFrame

\* the user the listener builds from the Firebase user
Base ==
  [id |-> FirebaseUser.uid,
   displayName |-> Or(FirebaseUser.displayName, "User")]

\* the listener's await apiFetch('/api/user/profile', token) settles: with a
\* profile document, or rejected (dbDoc is NoValue)
listenerProfile(k, dbDoc) ==
  /\ authOps[k].kind = "listener"
  /\ authOps[k].pc = "apiFetch"
  /\ setAndCache(IF dbDoc # NoValue THEN mergeWithDbProfile(Base, dbDoc)
                 ELSE Base)
  /\ authLoading' = FALSE
  /\ AuthEnds(k)
  /\ UNCHANGED << currentUser, lastNotifiedUid, settled >>
  /\ AuthFrame

\* logout, by handleLogout of the navigation bar, to its await
logout ==
  /\ user # NoValue
  /\ Awaiting("signOut") = {}
  /\ AuthSuspend([NoAuthOp EXCEPT !.kind = "signOut", !.pc = "signOut"])
  /\ UNCHANGED << user, cached, authLoading, currentUser, lastNotifiedUid,
                  settled >>
  /\ AuthFrame

\* await signOut(auth) settles; a rejection is logged
signOutSettles(k, ok) ==
  /\ authOps[k].pc = "signOut"
  /\ lastNotifiedUid # "undefined"
  /\ IF ok
     THEN /\ currentUser' = "null"
          /\ Notify(k, "null")
     ELSE /\ AuthEnds(k)
          /\ UNCHANGED << user, cached, authLoading, currentUser,
                          lastNotifiedUid >>
  /\ UNCHANGED settled
  /\ AuthFrame

\* the updates the profile page saves
Updates ==
  { [username |-> "bea"], [displayName |-> "Bea B", username |-> "bea"] }

\* updateProfile(updates), to its first await; getIdToken() reads
\* auth.currentUser before it yields
updateProfile(updates) ==
  /\ Awaiting("updateProfile") = {}
  /\ IF user = NoValue
     THEN /\ settled' = "resolved"
          /\ UNCHANGED << user, cached, authOps >>
     ELSE /\ setAndCache(Spread(user, updates))
          /\ settled' = "none"
          /\ AuthSuspend([kind |-> "updateProfile", pc |-> "getIdToken",
                          uid |-> currentUser, before |-> user,
                          updates |-> updates, res |-> NoValue])
  /\ UNCHANGED << authLoading, currentUser, lastNotifiedUid >>
  /\ AuthFrame

\* await getIdToken().catch(() => null) settles: without a token the call
\* returns
updateProfileToken(k, ok) ==
  /\ authOps[k].kind = "updateProfile"
  /\ authOps[k].pc = "getIdToken"
  /\ IF authOps[k].uid # "null" /\ ok
     THEN /\ authOps' = [authOps EXCEPT ![k].pc = "apiFetch"]
          /\ UNCHANGED settled
     ELSE /\ AuthEnds(k)
          /\ settled' = "resolved"
  /\ UNCHANGED << user, cached, authLoading, currentUser, lastNotifiedUid >>
  /\ AuthFrame

\* the documents PUT /api/user/profile can answer with: the fields that were
\* saved, alone or with the id of the document
PutDocs(updates) == { updates, Spread(updates, [id |-> "doc"]) }

\* confirmed: { ...optimistic, ...dbDoc, id: user.id }
confirmed(op, dbDoc) ==
  Spread(Spread(Spread(op.before, op.updates), dbDoc), [id |-> op.before.id])

\* the answers of the backend that are not OK: a conflict with a detail
\* that names the username, a conflict without a detail, a conflict whose
\* body is not JSON, and a failure of the server
Rejections ==
  { [status |-> 409, json |-> TRUE, statusText |-> <<"C","o","n","f","l","i","c","t">>,
     detail |-> <<"U","s","e","r","n","a","m","e"," ","a","l","r","e","a","d","y"," ","t","a","k","e","n">>],
    [status |-> 409, json |-> TRUE, statusText |-> <<"C","o","n","f","l","i","c","t">>,
     detail |-> << >>],
    [status |-> 409, json |-> FALSE, statusText |-> <<"C","o","n","f","l","i","c","t">>,
     detail |-> << >>],
    [status |-> 500, json |-> FALSE, statusText |-> <<"I","n","t","e","r","n","a","l"," ","S","e","r","v","e","r"," ","E","r","r","o","r">>,
     detail |-> << >>] }

\* apiFetch: const err = await res.json().catch(() => ({ detail:
\* res.statusText })); throw new Error(err.detail || `HTTP ${res.status}`)
ErrorMessage(res) ==
  LET detail == IF res.json THEN res.detail ELSE res.statusText
  IN  IF detail # << >> THEN detail ELSE <<"H","T","T","P"," ">> \o String(res.status)

\* the message of the TypeError of a request that cannot be sent
FailedToFetch == <<"F","a","i","l","e","d"," ","t","o"," ","f","e","t","c","h">>

\* msg.includes('409') || msg.toLowerCase().includes('username')
IsConflict(msg) ==
  includes(msg, String(409)) \/ includes(toLowerCase(msg), Username)

\* the answers of the backend to PUT /api/user/profile
Answers(updates) ==
  { [status |-> 200, json |-> TRUE, body |-> dbDoc] :
      dbDoc \in PutDocs(updates) } \cup Rejections

\* apiFetch: await fetch(...) resolves with the answer res
apiFetchAnswered(k, res) ==
  /\ authOps[k].kind = "updateProfile"
  /\ authOps[k].pc = "apiFetch"
  /\ authOps' = [authOps EXCEPT ![k].pc = "json", ![k].res = res]
  /\ UNCHANGED << user, cached, authLoading, currentUser, lastNotifiedUid,
                  settled >>
  /\ AuthFrame

\* the catch block of updateProfile
updateProfileCatch(k, msg) ==
  /\ IF IsConflict(msg)
     THEN /\ setAndCache(authOps[k].before)
          /\ settled' = "rejected"
     ELSE /\ UNCHANGED << user, cached >>
          /\ settled' = "resolved"
  /\ AuthEnds(k)
  /\ UNCHANGED << authLoading, currentUser, lastNotifiedUid >>
  /\ AuthFrame

\* apiFetch: await res.json() settles, and updateProfile runs to its end:
\* setAndCache(confirmed) after an OK answer, the catch block after another
apiFetchJson(k) ==
  /\ authOps[k].kind = "updateProfile"
  /\ authOps[k].pc = "json"
  /\ IF authOps[k].res.status = 200
     THEN /\ setAndCache(confirmed(authOps[k], authOps[k].res.body))
          /\ settled' = "resolved"
          /\ AuthEnds(k)
          /\ UNCHANGED << authLoading, currentUser, lastNotifiedUid >>
          /\ AuthFrame
     ELSE updateProfileCatch(k, ErrorMessage(authOps[k].res))

\* apiFetch: await fetch(...) rejects, and updateProfile runs to its end
apiFetchRejects(k) ==
  /\ authOps[k].kind = "updateProfile"
  /\ authOps[k].pc = "apiFetch"
  /\ updateProfileCatch(k, FailedToFetch)

\* the calls of the pages
AuthCall ==
  \/ \E email \in Emails : login(email)
  \/ \E email \in Emails, name \in Names : signup(email, name)
  \/ loginWithGoogle
  \/ logout
  \/ \E updates \in Updates : updateProfile(updates)

\* what Firebase, the timers and the backend do
AuthSettle ==
  \/ authStateReady
  \/ \E k \in 1..MaxAuthOps : loginTimer(k)
  \/ \E k \in 1..MaxAuthOps, ok \in BOOLEAN : signInWithPopupSettles(k, ok)
  \/ \E k \in 1..MaxAuthOps, ok \in BOOLEAN : listenerToken(k, ok)
  \/ \E k \in 1..MaxAuthOps, dbDoc \in DbDocs \cup {NoValue} :
       listenerProfile(k, dbDoc)
  \/ \E k \in 1..MaxAuthOps, ok \in BOOLEAN : signOutSettles(k, ok)
  \/ \E k \in 1..MaxAuthOps, ok \in BOOLEAN : updateProfileToken(k, ok)
  \/ \E k \in 1..MaxAuthOps :
       \E res \in Answers(authOps[k].updates) : apiFetchAnswered(k, res)
  \/ \E k \in 1..MaxAuthOps : apiFetchJson(k)
  \/ \E k \in 1..MaxAuthOps : apiFetchRejects(k)

AuthStep == AuthCall \/ AuthSettle

\* ------------------------------------------------------------------------
\* Specifications
\* ------------------------------------------------------------------------

Next == FormStep \/ GenerateStep \/ Generate \/ PipelineStep(RunFixtures)

Spec == Init /\ [][Next]_vars

\* the selector applied to every bounded input
SpecSelect == InitSelect /\ [][SelectMoments]_vars

\* the settings panel with the requests built from it: the source is a
\* YouTube URL, and every request fails to reach the server
NextSettings ==
  \/ \E u \in Urls : SetYoutubeUrl(u)
  \/ SettingsStep
  \/ handleGenerate
  \/ getIdTokenResolves
  \/ getIdTokenRejects
  \/ fetchRejects

SpecSettings == Init /\ [][NextSettings]_vars

\* the trash shows one item, deleted at one of the instants, as time passes
InitPurge ==
  /\ InitForm
  /\ InitDashboard
  /\ InitAuth
  /\ InitPipeline
  /\ tab = "trash"
  /\ activeItems = << >>
  /\ \E d \in DeletionTimes :
       /\ trashItems = << [id |-> 1, deletedAt |-> toISOString(d)] >>
       /\ now = d
  /\ loading = FALSE
  /\ confirm = NoOp
  /\ pending = [k \in 1..MaxPending |-> NoOp]
  /\ days = NoValue
  /\ error = "null"

NextPurge ==
  \/ \E t \in InstantsFrom(getTime(trashItems[1].deletedAt)) : ClockAdvances(t)
  \/ HistoryRow

SpecPurge == InitPurge /\ [][NextPurge]_vars

\* the history page on its own, from its construction
SpecHistory == Init /\ [][HistoryStep]_vars

\* the auth context on its own, from its construction
SpecAuth == Init /\ [][AuthStep]_vars

\* the same where every await settles in the end, the timers fire and
\* Firebase initialises; nothing makes a page call the context
SpecAuthLive == SpecAuth /\ WF_vars(AuthSettle)

\* a run of the pipeline on its own, from Queued, for a request of one to
\* three clips of automatic or ten-second duration
InitPipelineRun ==
  /\ InitForm
  /\ InitDashboard
  /\ InitAuth
  /\ InitHistory
  /\ stage = "Queued"
  /\ category = "none"
  /\ scratch = FALSE
  /\ mediaDuration = 0
  /\ candidates = << >>
  /\ requestedCount \in 1..3
  /\ requestedDuration \in {Auto, 2 * GridSlot}
  /\ accepted = << >>
  /\ selected = << >>
  /\ work = << >>
  /\ record = {}
  /\ runClips = << >>

SpecPipeline == InitPipelineRun /\ [][PipelineStep(PipelineFixtures)]_vars

\* Generation runs from a filled-in form, with the fairness the program can
\* count on: the browser fires an armed timer and settles getIdToken, and
\* the server keeps working on a run (which its own ceiling ends).  Nothing
\* makes the network deliver: neither the response nor, after it, its body.
InitLive ==
  /\ InitDashboard
  /\ InitAuth
  /\ InitHistory
  /\ InitPipeline
  /\ \E which \in SourceTabs :
       /\ sourceTab = which
       /\ youtubeUrl = (IF which = "youtube" THEN "https://v" ELSE "")
       /\ twitchUrl = (IF which = "twitch" THEN "https://v" ELSE "")
       /\ uploadedFile = (which = "upload")

NextLive == GenerateStep \/ Generate \/ PipelineStep(RunFixtures)

Fairness ==
  /\ WF_vars(abortTimeout)
  /\ WF_vars(getIdTokenResolves \/ getIdTokenRejects)
  /\ WF_vars(Generate \/ PipelineStep(RunFixtures))

SpecLive == InitLive /\ [][NextLive]_vars /\ Fairness

\* ------------------------------------------------------------------------
\* C1
\* ------------------------------------------------------------------------

\* C1: every generation run eventually reaches a terminal outcome: once
\* handleGenerate has started a request the dashboard is eventually no longer
\* processing, and a run the server has started eventually ends
C1_EventuallyTerminal ==
  /\ processing ~> ~processing
  /\ (stage \notin {"None"} \cup TerminalStages)
       ~> (stage \in {"None"} \cup TerminalStages)

\* C2: a run is never reported Completed with an empty clip list: a Completed
\* run holds at least one clip, the response that reports it carries at least
\* one clip, and the dashboard shows the results (progress 100) only with at
\* least one clip; a run that ends with no surviving clip is Failed with an
\* error category and delivers nothing, and the dashboard then shows an alert
\* and no clip.
C2_NoEmptyCompleted ==
  /\ stage = "Completed" => Len(runClips) >= 1
  /\ (Terminal /\ \A i \in Workers : work[i] # "published") =>
       /\ stage = "Failed"
       /\ category \in ErrorCategories
       /\ runClips = << >>
  /\ response.status = "completed" => Len(response.clips) >= 1
  /\ progress = 100 => Len(clips) >= 1
  /\ (pc = "idle" /\ response.status = "failed") =>
       /\ alertMsg # "none"
       /\ clips = << >>
       /\ progress < 100

\* the dashboard shows the clips of a Completed run
C2_Witness ==
  /\ pc = "idle"
  /\ response.status = "completed"
  /\ progress = 100
  /\ Len(clips) >= 1

FailedWorkers == { i \in Workers : work[i] \in {"renderFailed", "publishFailed"} }

PublishedWorkers == { i \in Workers : work[i] = "published" }

\* C3: render and publish failures are scoped to the clip.  A Completed run
\* delivers exactly the clips that survived render and publish, k >= 1 of
\* the N attempted; a run fails with RenderError or PublishError only when no
\* clip survived; a run in which a clip survived ends Completed unless the
\* run itself timed out or was cancelled; sibling workers are torn down only
\* by the run's timeout; and the step in which one clip fails changes no
\* sibling's state and not the run's stage.
C3_ClipFailuresScoped ==
  /\ [](stage = "Completed" =>
          /\ Cardinality(PublishedWorkers) >= 1
          /\ Len(runClips) = Cardinality(PublishedWorkers)
          /\ { runClips[k].id : k \in 1..Len(runClips) } = PublishedWorkers)
  /\ []((stage = "Failed" /\ category \in {"RenderError", "PublishError"}) =>
          /\ PublishedWorkers = {}
          /\ FailedWorkers = Workers)
  /\ []((Terminal /\ PublishedWorkers # {}) =>
          \/ stage = "Completed"
          \/ category \in {"Timeout", "Cancelled"})
  /\ []((\E i \in Workers : work[i] = "aborted") => category = "Timeout")
  /\ [][\A i \in Workers :
          (i \notin FailedWorkers /\ Len(work') = Len(work)
             /\ work'[i] \in {"renderFailed", "publishFailed"}) =>
            (/\ stage' = stage
             /\ \A j \in Workers \ {i} : work'[j] = work[j])]_vars

\* three clips attempted, one failed, the run Completed with the other two
C3_Witness ==
  /\ stage = "Completed"
  /\ Len(selected) = 3
  /\ Cardinality(FailedWorkers) = 1
  /\ Len(runClips) = 2

\* the position of an orchestrator stage in StageOrder
StageNo(st) == CHOOSE k \in 1..Len(StageOrder) : StageOrder[k] = st

\* the position of a displayed stage name in the stage list of the run's
\* source, 0 for a text that is not in the list
DisplayNo(name) ==
  IF \E k \in 1..Len(StagesOf(sourceTab)) : StagesOf(sourceTab)[k] = name
  THEN CHOOSE k \in 1..Len(StagesOf(sourceTab)) : StagesOf(sourceTab)[k] = name
  ELSE 0

\* the orchestrator moves one stage forward, or to Failed from a stage that
\* is not terminal; Completed and Failed are left only when the run is
\* forgotten
OrchestratorForward ==
  stage' # stage =>
    \/ stage' = "None"
    \/ stage = "None" /\ stage' = "Queued"
    \/ stage \notin {"None"} \cup TerminalStages /\ stage' = "Failed"
    \/ /\ stage \in Range(StageOrder)
       /\ stage' \in Range(StageOrder)
       /\ StageNo(stage') = StageNo(stage) + 1

\* C4: stages advance only forward, Queued -> Acquiring -> Transcribing ->
\* Detecting -> Selecting -> Rendering -> Publishing -> Completed, Failed is
\* reachable from every stage that is not terminal, Completed and Failed are
\* absorbing; and while a run is processing in the dashboard the displayed
\* stage name never moves to an earlier entry of the stage list.
C4_StagesOnlyForward ==
  /\ [][OrchestratorForward]_vars
  /\ [][(processing /\ processing') =>
          DisplayNo(progressStage') >= DisplayNo(progressStage)]_vars

\* C5: the progress of a run is monotonically non-decreasing from the moment
\* handleGenerate has reset it to 0 until the run ends (while processing is
\* true no step lowers it), and it is always within 0..100.
C5_ProgressMonotonic ==
  /\ [](progress \in 0..100)
  /\ [][processing => progress' >= progress]_vars

\* a run whose simulated progress has climbed to the cap
C5_Witness ==
  /\ processing
  /\ progress = ProgressCap
  /\ tickCount > ProgressCap

\* C6: a run that exceeds the timeout ceiling is Failed with Timeout, with no
\* clip delivered, its scratch media released and none of its workers left
\* in flight; in the dashboard the abort that fires while the request is
\* pending ends processing with the timeout error, both timers cleared, and
\* leaves the clip list empty, and the timeout error is never shown with a
\* run still processing or with clips.
C6_TimeoutEndsRun ==
  /\ []((stage = "Failed" /\ category = "Timeout") =>
          /\ runClips = << >>
          /\ ~scratch
          /\ InFlight = {})
  /\ [](alertMsg = "timeout" =>
          /\ ~processing
          /\ clips = << >>
          /\ ~stageInterval
          /\ ~timeoutId)
  /\ [][(pc = "fetch" /\ ~aborted /\ aborted') =>
          (/\ alertMsg' = "timeout"
           /\ ~processing'
           /\ clips' = << >>
           /\ pc' = "idle")]_vars

\* the abort has fired on a pending request of a run that had made progress
C6_Witness ==
  /\ aborted
  /\ alertMsg = "timeout"
  /\ progress > 0
  /\ ~processing

\* C7: the moments select returns are pairwise non-overlapping (within the
\* tolerance, 0), whether the requested duration is auto or fixed.
C7_PairwiseNonOverlapping ==
  stage = "Rendering" =>
    \A i, j \in 1..Len(selected) : i < j => ~Overlaps(selected[i], selected[j])

\* the number of available non-overlapping candidates: the size of a largest
\* set of candidates that are pairwise non-overlapping
MaxDisjoint(cands) ==
  LET Disjoint(S) == \A i, j \in S : i < j => ~Overlaps(cands[i], cands[j])
      Sizes == { Cardinality(S) : S \in { T \in SUBSET (1..Len(cands)) : Disjoint(T) } }
  IN  CHOOSE n \in Sizes : \A m \in Sizes : m <= n

\* candidate k was accepted, or it overlaps an accepted moment (the range the
\* detector gave it, or the range it was given by the fixed duration)
AcceptedOrBlocked(k) ==
  \/ candidates[k] \in Range(accepted)
  \/ \E i \in 1..Len(accepted) :
       \/ Overlaps(candidates[k], accepted[i])
       \/ Overlaps(candidates[k], selected[i])

RejectedForOverlap(k) ==
  /\ candidates[k] \notin Range(accepted)
  /\ \/ Len(accepted) < requestedCount
     \/ \E i \in 1..Len(accepted) : accepted[i].viralScore < candidates[k].viralScore

\* candidate k overlaps the accepted moment i
OverlapsAccepted(k, i) ==
  \/ Overlaps(candidates[k], accepted[i])
  \/ Overlaps(candidates[k], selected[i])

\* C10 as stated: a candidate is rejected only because it overlaps an
\* accepted moment of higher score, or of equal score and earlier start.
C10_GreedyOptimal ==
  stage = "Rendering" =>
    \A k \in 1..Len(candidates) :
      RejectedForOverlap(k) =>
        \E i \in 1..Len(accepted) :
          /\ OverlapsAccepted(k, i)
          /\ Before(accepted[i], candidates[k])

\* C10, amended: no returned moment has a lower score than a candidate that
\* was rejected for overlap but would have fit, i.e. a candidate is rejected
\* only because it overlaps an accepted moment of higher score, or of equal
\* score and a start that is not later (of two candidates with the same
\* score and the same start the one the detector listed first wins).
C10_GreedyOptimalUpToTies ==
  stage = "Rendering" =>
    \A k \in 1..Len(candidates) :
      RejectedForOverlap(k) =>
        \E i \in 1..Len(accepted) :
          /\ OverlapsAccepted(k, i)
          /\ \/ accepted[i].viralScore > candidates[k].viralScore
             \/ /\ accepted[i].viralScore = candidates[k].viralScore
                /\ accepted[i].startTime <= candidates[k].startTime

\* a candidate was rejected for overlap although its score is higher than
\* that of a returned moment
C10_Witness ==
  /\ stage = "Rendering"
  /\ \E k \in 1..Len(candidates) :
       /\ candidates[k] \notin Range(accepted)
       /\ \E i \in 1..Len(selected) : selected[i].viralScore < candidates[k].viralScore

\* the first, third and fifth candidate of Scenario A
ScenarioAExpected ==
  << ScenarioA.candidates[1], ScenarioA.candidates[3], ScenarioA.candidates[5] >>

\* C9: the output of select is in descending score order, ties broken by
\* the earlier start of the candidate, and this is the order of the run's
\* clips, each clip carrying the score and range of its moment; for the five
\* candidates of Scenario A, three clips requested and duration auto, the
\* result is exactly candidates 1, 3 and 5 in that order, and so are the
\* clips of the run when all three survive.
C9_ScoreOrder ==
  /\ Len(accepted) = Len(selected)
  /\ \A i, j \in 1..Len(selected) :
       i < j =>
         \/ selected[i].viralScore > selected[j].viralScore
         \/ /\ selected[i].viralScore = selected[j].viralScore
            /\ accepted[i].startTime <= accepted[j].startTime
  /\ \A a, b \in 1..Len(runClips) :
       /\ a < b => runClips[a].id < runClips[b].id
       /\ a < b => runClips[a].viralScore >= runClips[b].viralScore
       /\ runClips[a].id \in 1..Len(selected)
       /\ runClips[a].viralScore = selected[runClips[a].id].viralScore
       /\ runClips[a].startTime = selected[runClips[a].id].startTime
       /\ runClips[a].endTime = selected[runClips[a].id].endTime
  /\ ( /\ candidates = ScenarioA.candidates
       /\ requestedCount = 3
       /\ requestedDuration = Auto
       /\ stage \in {"Rendering", "Publishing", "Completed"} ) =>
         /\ selected = ScenarioAExpected
         /\ (stage = "Completed" /\ Len(runClips) = 3) =>
              [k \in 1..3 |-> runClips[k].viralScore] = << 9, 7, 5 >>

\* the run of Scenario A, Completed with its three clips
C9_Witness ==
  /\ stage = "Completed"
  /\ candidates = ScenarioA.candidates
  /\ requestedCount = 3
  /\ requestedDuration = Auto
  /\ Len(runClips) = 3

\* moment i lies within the media
InsideMedia(i) ==
  /\ 0 <= selected[i].startTime
  /\ selected[i].startTime < selected[i].endTime
  /\ selected[i].endTime <= mediaDuration

\* moment i is centred on the midpoint of its candidate, or was shifted
\* against an end of the media
CentredOrShifted(i) ==
  \/ selected[i].startTime + selected[i].endTime =
       accepted[i].startTime + accepted[i].endTime
  \/ selected[i].startTime = 0
  \/ selected[i].endTime = mediaDuration

\* C11 as stated: for a fixed requestedDuration every selected moment's
\* range has exactly that length, is centred on the candidate's midpoint
\* unless shifted to stay inside the media, and lies within
\* [0, mediaDuration].
C11_FixedDurationExact ==
  (stage = "Rendering" /\ requestedDuration # Auto) =>
    \A i \in 1..Len(selected) :
      /\ selected[i].endTime - selected[i].startTime = requestedDuration
      /\ CentredOrShifted(i)
      /\ InsideMedia(i)

\* C11, amended: for a fixed requestedDuration every selected moment's range
\* lies within [0, mediaDuration], is centred on the candidate's midpoint
\* unless shifted to stay inside the media, and has exactly that length
\* when the media is at least that long; when the media is shorter than the
\* fixed duration the range is the whole media.
C11_FixedDurationWithinMedia ==
  (stage = "Rendering" /\ requestedDuration # Auto) =>
    \A i \in 1..Len(selected) :
      /\ selected[i].endTime - selected[i].startTime =
           Min(requestedDuration, mediaDuration)
      /\ CentredOrShifted(i)
      /\ InsideMedia(i)
      /\ selected[i].viralScore = accepted[i].viralScore
      /\ selected[i].reason = accepted[i].reason

\* a candidate was given the fixed duration around its midpoint, and
\* another one was shifted to stay inside the media
C11_Witness ==
  /\ stage = "Rendering"
  /\ requestedDuration # Auto
  /\ requestedDuration <= mediaDuration
  /\ \E i \in 1..Len(selected) :
       /\ selected[i] # accepted[i]
       /\ selected[i].endTime - selected[i].startTime = requestedDuration
       /\ selected[i].startTime + selected[i].endTime #
            accepted[i].startTime + accepted[i].endTime

\* the detector has returned
DetectDone ==
  \/ stage \in {"Selecting", "Rendering", "Publishing", "Completed"}
  \/ stage = "Failed" /\ category \in {"RenderError", "PublishError"}

\* the detector fell back on the heuristic
FellBack ==
  /\ DetectDone
  /\ \A k \in 1..Len(candidates) : candidates[k].reason = "heuristic"

\* the heuristic's candidates: requestedCount windows when the media holds a
\* window, of the window's length, their starts spaced evenly (to the
\* half-second) from the start of the media to the last window that fits;
\* at most one, the whole media, when it does not; all within the media and
\* heuristic by their reason
EvenlySpacedWindows ==
  LET w == HeuristicWindow(mediaDuration, requestedCount, requestedDuration)
      fits == WindowFits(mediaDuration, requestedCount, requestedDuration)
      n == Len(candidates)
  IN  /\ n <= requestedCount
      /\ fits => n = requestedCount
      /\ ~fits => n <= 1
      /\ \A k \in 1..n :
           /\ candidates[k].reason = "heuristic"
           /\ 0 <= candidates[k].startTime
           /\ candidates[k].startTime < candidates[k].endTime
           /\ candidates[k].endTime <= mediaDuration
           /\ fits => candidates[k].endTime = candidates[k].startTime + w
           /\ ~fits => candidates[k].endTime - candidates[k].startTime
                          = mediaDuration
      /\ n > 1 =>
           /\ candidates[1].startTime = 0
           /\ candidates[n].endTime = mediaDuration
           /\ \A k \in 1..(n - 1) :
                (candidates[k + 1].startTime - candidates[k].startTime)
                  - ((mediaDuration - w) \div (n - 1)) \in {0, 1}

OutcomesOf(i) ==
  IF work[i] \in {"rendered", "publishing"} THEN {"rendered"}
  ELSE IF work[i] = "renderFailed" THEN {"renderFailed"}
  ELSE IF work[i] = "published" THEN {"rendered", "published"}
  ELSE IF work[i] = "publishFailed" THEN {"rendered", "publishFailed"}
  ELSE {}

\* every outcome a worker has recorded is in the status record
OutcomesRecorded ==
  \A i \in Workers : \A o \in OutcomesOf(i) :
    [clip |-> i, outcome |-> o] \in record

\* C13: during the render/publish fan-out every clip outcome recorded by a
\* clip's worker is still in the run's status record when the run ends,
\* under every interleaving of the per-clip workers: at each moment the
\* record holds every outcome the workers have recorded, and while the run
\* lasts no step takes an entry out of the record.
C13_OutcomesKept ==
  /\ []OutcomesRecorded
  /\ [][stage' \notin {"None", "Queued"} => record \subseteq record']_vars

\* two workers ran side by side and the run ended Completed with the four
\* outcomes of the two clips on record
C13_Witness ==
  /\ stage = "Completed"
  /\ Len(work) = 2
  /\ \A i \in Workers : work[i] = "published"
  /\ record = { [clip |-> i, outcome |-> o] :
                  i \in 1..2, o \in {"rendered", "published"} }

\* the renders that are reading the scratch media
Rendering == { i \in Workers : work[i] = "rendering" }

\* C14: the scratch MediaAsset of a run is removed whenever the run reaches
\* a terminal state (Completed, or Failed, with Timeout as with any other
\* category), and it is never removed while a render of the run is still
\* reading it: the media is there as long as a render is in flight.
C14_ScratchRemovedAtEnd ==
  /\ Terminal => ~scratch
  /\ Rendering # {} => scratch

\* the run timed out during the fan-out, with one render in flight and
\* another not yet started: the render was torn down and the scratch media
\* removed
C14_Witness ==
  /\ stage = "Failed"
  /\ category = "Timeout"
  /\ ~scratch
  /\ \E i, j \in Workers : work[i] = "aborted" /\ work[j] = "pending"

\* the duration of a request: 'auto' or the numeral of a whole number of
\* seconds from 5 to 120
DurationInBounds(text) ==
  \/ text = AutoText
  \/ /\ IsNumeral(text)
     /\ String(Number(text)) = text
     /\ Number(text) \in SliderMin..SliderMax

\* the settings of a request are within their bounds
RequestInBounds(r) ==
  /\ r.numberOfClips \in 1..10
  /\ r.aspectRatio \in {"9:16", "1:1", "4:5", "16:9"}
  /\ DurationInBounds(r.duration)

\* C15: every generation request built by the dashboard is within bounds
\* after any sequence of settings changes: numberOfClips from 1 to 10,
\* aspectRatio one of 9:16, 1:1, 4:5, 16:9, duration 'auto' or a whole
\* number of seconds from 5 to 120; and whenever settings.duration is not
\* 'auto' it equals customDuration, the value sent in the request.
C15_RequestInBounds ==
  /\ settings.duration # Auto => settings.duration = customDuration
  /\ clipSettings # NoValue =>
       /\ RequestInBounds(clipSettings)
       /\ clipSettings.duration =
            IF settings.duration = Auto THEN AutoText
            ELSE String(settings.duration)
  /\ request # NoValue =>
       /\ RequestInBounds(request)
       /\ request.duration =
            IF settings.duration = Auto THEN AutoText
            ELSE String(settings.duration)

\* after a duration button, the range input and the other settings, a
\* request with a custom duration of 120 seconds is on its way
C15_Witness ==
  /\ request # NoValue
  /\ request.duration = << "1", "2", "0" >>
  /\ request.numberOfClips = 10
  /\ request.aspectRatio = "16:9"
  /\ settings.duration = 120

\* the whole days n for which the window of the deletion that `days` was
\* computed for has, n days on, run out
DaysToWindowEnd ==
  { n \in 0..RetentionDays :
      n * DayMs >= getTime(days.deletedAt) + RetentionDays * DayMs - days.at }

\* C16: the retention window of a soft-deleted item is 10 days: for the
\* deletion time d and the current time now >= d, daysUntilPurge is a whole
\* number in 0..10, the ceiling of the days left until d + 10 days (the
\* least number of whole days after which the window has run out), never
\* negative, and 0 exactly when now >= d + 10 days.
C16_DaysUntilPurge ==
  (days # NoValue /\ days.at >= getTime(days.deletedAt)) =>
    /\ days.left \in 0..RetentionDays
    /\ days.left \in DaysToWindowEnd
    /\ \A n \in DaysToWindowEnd : days.left <= n
    /\ days.left = 0 <=>
         days.at >= getTime(days.deletedAt) + RetentionDays * DayMs

\* a row rendered one millisecond before the end of the window, of an item
\* deleted within a day, shows one day left
C16_Witness ==
  /\ days # NoValue
  /\ getTime(days.deletedAt) = HourMs + MinuteMs + SecondMs + 1
  /\ days.at = getTime(days.deletedAt) + RetentionDays * DayMs - 1
  /\ days.left = 1

\* the handler k ends in this step
Ends(k, kind) == pending[k].kind = kind /\ pending'[k] = NoOp

\* the ids of the two lists
Listed == Ids(activeItems) \cup Ids(trashItems)

\* every item of the list carries deletedAt
AllDeleted(items) == \A k \in 1..Len(items) : items[k].deletedAt # NoValue

\* C17: a confirmed soft delete of an item in the active list removes it
\* from active and puts it at the head of trash with a deletedAt timestamp,
\* whether or not the backend call succeeds; a confirmed 'move all to trash'
\* leaves the active list empty and every formerly active item in trash
\* with a deletedAt timestamp; every item these operations place in trash
\* carries deletedAt.
C17_SoftDeleteMovesToTrash ==
  [][ \A k \in 1..MaxPending :
        /\ Ends(k, "softDelete") =>
             /\ pending[k].id \notin Ids(activeItems')
             /\ trashItems' # << >>
             /\ trashItems'[1].id = pending[k].id
             /\ trashItems'[1].deletedAt # NoValue
        /\ Ends(k, "clearAll") =>
             /\ activeItems' = << >>
             /\ \A id \in Ids(activeItems) :
                  \E j \in 1..Len(trashItems') :
                    /\ trashItems'[j].id = id
                    /\ trashItems'[j].deletedAt # NoValue
        /\ (Ends(k, "softDelete") \/ Ends(k, "clearAll")) =>
             (AllDeleted(trashItems) => AllDeleted(trashItems')) ]_vars

\* C18: after any interleaving of soft delete, restore, permanent delete,
\* move-all-to-trash, empty trash and refresh, operations started while
\* another awaits its backend call included, no item id appears more than
\* once across the active and trash lists.
C18_NoDuplicateIds ==
  LET all == activeItems \o trashItems
  IN  \A j, k \in 1..Len(all) : all[j].id = all[k].id => j = k

\* C19: an item leaves the union of the active and trash lists only through
\* its own permanent delete, an empty-trash or a refetch: the step that
\* takes an id out of both lists is the end of the permanent delete of that
\* id, of an empty-trash or of fetchHistory.
C19_LeavesOnlyByItsOwnDelete ==
  [][ \A id \in Listed \ (Ids(activeItems') \cup Ids(trashItems')) :
        \E k \in 1..MaxPending :
          \/ Ends(k, "permanentDelete") /\ pending[k].id = id
          \/ Ends(k, "emptyTrash")
          \/ Ends(k, "fetch") ]_vars

\* soft delete followed by restore of the item id, each run from the click
\* to its end with nothing in between, from the lists as they are
SoftDeleteThenRestore(id) ==
  LET deleted ==
        AfterSoftDelete([kind |-> "softDelete", id |-> id,
                         items |-> activeItems, pc |-> "fetch"],
                        activeItems, trashItems, now)
  IN  AfterRestore([kind |-> "restore", id |-> id,
                    items |-> deleted.trash, pc |-> "fetch"],
                   deleted.active, deleted.trash)

\* C20: restore undoes soft delete: restoring a trashed item removes it from
\* trash and puts it in the active list with deletedAt cleared, so that soft
\* delete followed by restore of the same item leaves the set of active
\* items and the set of trashed items as they were before.
C20_RestoreUndoesSoftDelete ==
  /\ [][ \A k \in 1..MaxPending :
           Ends(k, "restore") =>
             /\ pending[k].id \notin Ids(trashItems')
             /\ activeItems' # << >>
             /\ activeItems'[1] = [id |-> pending[k].id, deletedAt |-> NoValue] ]_vars
  /\ [](\A id \in Ids(activeItems) :
          /\ Range(SoftDeleteThenRestore(id).active) = Range(activeItems)
          /\ Range(SoftDeleteThenRestore(id).trash) = Range(trashItems))

\* the handlers that ask for confirmation
NeedConfirm == {"softDelete", "permanentDelete", "clearAll", "emptyTrash"}

\* this step changes the active list or the trash
ListsChange == activeItems' # activeItems \/ trashItems' # trashItems

\* this step starts in slot k the doIt that waits in the dialog
Confirms(k) ==
  /\ confirm' = NoOp
  /\ pending[k] = NoOp
  /\ pending'[k] = [confirm EXCEPT !.pc = "getIdToken", !.items = pending'[k].items]
  /\ \A j \in 1..MaxPending \ {k} : pending'[j] = pending[j]

\* C21: soft delete, permanent delete, move-all-to-trash and empty-trash
\* change the lists only after the dialog is confirmed: the step that asks
\* and the step that cancels leave both lists as they are and no handler
\* started or advanced, so that no request goes to the backend; the doIt of
\* each of the four runs only from the step that confirms its dialog; and
\* the lists change only where a running handler ends.
C21_ChangesOnlyAfterConfirm ==
  [][ /\ confirm' # confirm =>
           /\ ~ListsChange
           /\ \/ pending' = pending
              \/ DialogOpen /\ \E k \in 1..MaxPending : Confirms(k)
      /\ \A k \in 1..MaxPending :
           (pending'[k] # pending[k] /\ pending'[k].kind \in NeedConfirm) =>
             \/ pending[k] = NoOp /\ DialogOpen /\ Confirms(k)
             \/ pending[k].kind = pending'[k].kind /\ pending[k].pc = "getIdToken"
      /\ ListsChange =>
           \E k \in 1..MaxPending : pending[k] # NoOp /\ pending'[k] = NoOp ]_vars

\* the dialog of a permanent delete is open over two lists that are not
\* empty while no handler runs: Cancel leaves them as they are
C21_Witness ==
  /\ confirm.kind = "permanentDelete"
  /\ activeItems # << >>
  /\ trashItems # << >>
  /\ \A k \in 1..MaxPending : pending[k] = NoOp

\* C22: a confirmed permanent delete removes exactly the chosen item from
\* trash and a confirmed empty-trash removes every trashed item, and both
\* leave the active list unchanged: where the doIt of a permanent delete
\* ends the trash is the trash of before without the item, where the doIt
\* of an empty-trash ends the trash is empty, and the active list is the
\* same before and after.
C22_DeletesFromTrashAlone ==
  [][ \A k \in 1..MaxPending :
        /\ Ends(k, "permanentDelete") =>
             /\ trashItems' = Without(trashItems, pending[k].id)
             /\ activeItems' = activeItems
        /\ Ends(k, "emptyTrash") =>
             /\ trashItems' = << >>
             /\ activeItems' = activeItems ]_vars

\* the lists are those of an answer of the server
FromServer ==
  \E data \in ServerData :
    activeItems' = data.active /\ trashItems' = data.trash

\* C23: fetchHistory always ends with loading false; when the request fails
\* or the server answers non-OK both lists become empty and an error message
\* is set; when no ID token is available the lists are left unchanged and no
\* error is set; on success the lists are replaced by the server's active
\* and trash arrays and the error is cleared. Every end of fetchHistory is
\* one of the three: a failure, an end before the request with the lists
\* and the error as they were, or a success after the request with the
\* server's lists and no error.
C23_FetchHistoryEnds ==
  [][ \A k \in 1..MaxPending :
        Ends(k, "fetch") =>
          /\ loading' = FALSE
          /\ \/ /\ error' \in {CouldNotReach, ServerError, FailedToLoad}
                /\ activeItems' = << >>
                /\ trashItems' = << >>
             \/ /\ pending[k].pc = "getIdToken"
                /\ ~ListsChange
                /\ error' = error
             \/ /\ pending[k].pc = "fetch"
                /\ FromServer
                /\ error' = "null" ]_vars

\* this step is a firing of stageInterval
TimerTick == tickCount' = tickCount + 1

\* C24: while a generation request is awaiting its response the simulated
\* progress is a whole number that never exceeds 97; it becomes 100 only
\* when the response reports status 'completed'; and after the run ends
\* (success, error or timeout) no timer tick changes the progress or the
\* stage: the interval ticks only in a run that still awaits its token or
\* its response, and it is cleared in every state without such a run.
C24_SimulatedProgress ==
  /\ [](processing => progress \in 0..ProgressCap)
  /\ [][(progress' = 100 /\ progress # 100) =>
          (pc = "json" /\ response.status = "completed")]_vars
  /\ [][TimerTick => (processing /\ pc \in {"getIdToken", "fetch"})]_vars
  /\ [](stageInterval => (processing /\ pc \in {"getIdToken", "fetch"}))
  /\ [][(~processing /\ (progress' # progress \/ progressStage' # progressStage))
          => ~TimerTick]_vars

\* a run has ended with status 'completed' and shows its clips: the
\* progress is 100 and the interval is cleared
C24_Witness ==
  /\ ~processing
  /\ progress = 100
  /\ progressStage = "Done!"
  /\ clips # << >>
  /\ ~stageInterval

\* the call k of updateProfile ends in this step
ProfileEnds(k) ==
  authOps[k].kind = "updateProfile" /\ authOps'[k] = NoAuthOp

\* the call k of updateProfile ends on an answer of the backend with the
\* status
EndsOnStatus(k, status) ==
  /\ ProfileEnds(k)
  /\ authOps[k].pc = "json"
  /\ authOps[k].res.status = status

\* C25: updateProfile applies the update to the in-memory user and the
\* local cache first; if the backend rejects it with a username conflict
\* (409), the user and the cache are rolled back to the value they had
\* before the call and the error is re-thrown; on any other backend error
\* the optimistic update is kept and no error is thrown; with no user it
\* does nothing; and the user's id is never changed by updateProfile: the
\* user it writes has the id of the user it was called with.
C25_UpdateProfile ==
  [][ /\ \A k \in 1..MaxAuthOps :
           /\ (authOps[k] = NoAuthOp /\ authOps'[k].kind = "updateProfile") =>
                /\ user' = Spread(user, authOps'[k].updates)
                /\ cached' = stringify(user')
                /\ user'.id = user.id
           /\ EndsOnStatus(k, 409) =>
                /\ user' = authOps[k].before
                /\ cached' = stringify(authOps[k].before)
                /\ settled' = "rejected"
           /\ (ProfileEnds(k) /\ authOps[k].pc \in {"apiFetch", "json"}
                 /\ ~EndsOnStatus(k, 409) /\ ~EndsOnStatus(k, 200)) =>
                /\ UNCHANGED << user, cached >>
                /\ settled' = "resolved"
           /\ EndsOnStatus(k, 200) =>
                /\ user'.id = authOps[k].before.id
                /\ settled' = "resolved"
      /\ (user = NoValue /\ authOps' = authOps /\ settled' # settled) =>
           UNCHANGED << user, cached >> ]_vars

\* logout has been called and its signOut has not settled
LogoutCalled == Awaiting("signOut") # {}

\* C26: after logout is called, the user eventually becomes null and the
\* cached user is removed, for every way the user was logged in (Google
\* sign-in, or the email/password login and signup).
C26_LogoutClearsUser ==
  LogoutCalled ~> (user = NoValue /\ cached = NoValue)

====
